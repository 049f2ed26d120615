--------------------------- MODULE ConsentTransport ---------------------------
(* The packets of a-quo-ipc: the requests a client sends to the consent daemon, *)
(* the daemon's responses, and their encoders and decoders.                     *)
(*                                                                              *)
(* A packet is a sequence of cells, as in ApprovalProtocol: a number, a digest  *)
(* and a run of reserved bytes are one cell each, a text is a sequence of       *)
(* cells, 0 in a text is a character the display rules refuse, and the all-zero *)
(* digest is 0.  Offsets are counted in cells.                                  *)
EXTENDS Integers, Sequences, SequencesExt, FiniteSets

CONSTANT None

HEADER_CELLS == 6
MAGIC == 2
PROTOCOL_MAJOR == 1
PROTOCOL_MINOR == 0
FLAGS_NONE == 0

MESSAGE_SIGN_REQUEST == 1
MESSAGE_SIGN_APPROVED == 2
MESSAGE_SIGN_REJECTED == 3
MESSAGE_DOMAIN_SIGN_REQUEST == 4
MESSAGE_PERSONA_ROOT_SIGN_REQUEST == 5
MESSAGE_PERSONA_TRANSITION_SIGN_REQUEST == 6
MESSAGE_RECOVERY_PARTICIPATION_REQUEST == 7

(* The limits of the texts, in cells. *)
MAX_PERSONA_ID == 2
MAX_ARTIFACT_LABEL == 2
MAX_NEXT_SIGNING_REFERENCE == 3
MAX_RECOVERY_PARTICIPANT_SIGNING_REFERENCE == 3
MAX_RECOVERY_PARTICIPANT_PUBLIC_KEY == 3
MAX_RECOVERY_POLICY_VERSION == 2
RecoveryThreshold == 2..3

ARTIFACT_REQUEST_PREFIX == 4
DOMAIN_REQUEST_PREFIX == 2
PERSONA_TRANSITION_REQUEST_PREFIX == 9
RECOVERY_PARTICIPATION_REQUEST_PREFIX == 12
RESPONSE_PREFIX == 2

MAX_ARTIFACT_REQUEST_PAYLOAD == ARTIFACT_REQUEST_PREFIX + MAX_PERSONA_ID + MAX_ARTIFACT_LABEL
MAX_DOMAIN_REQUEST_PAYLOAD == DOMAIN_REQUEST_PREFIX + MAX_PERSONA_ID
MAX_PERSONA_TRANSITION_REQUEST_PAYLOAD ==
    PERSONA_TRANSITION_REQUEST_PREFIX + MAX_PERSONA_ID + MAX_NEXT_SIGNING_REFERENCE
MAX_RECOVERY_PARTICIPATION_REQUEST_PAYLOAD ==
    RECOVERY_PARTICIPATION_REQUEST_PREFIX + MAX_RECOVERY_PARTICIPANT_SIGNING_REFERENCE
    + MAX_RECOVERY_PARTICIPANT_PUBLIC_KEY

Larger(a, b) == IF a > b THEN a ELSE b

(* A plausible slip: the limit from before the recovery request. *)
SlipOldLimit ==
    HEADER_CELLS
    + Larger(Larger(MAX_ARTIFACT_REQUEST_PAYLOAD, MAX_DOMAIN_REQUEST_PAYLOAD),
             MAX_PERSONA_TRANSITION_REQUEST_PAYLOAD)

MAX_REQUEST_PACKET ==
    HEADER_CELLS
    + Larger(Larger(Larger(MAX_ARTIFACT_REQUEST_PAYLOAD, MAX_DOMAIN_REQUEST_PAYLOAD),
                    MAX_PERSONA_TRANSITION_REQUEST_PAYLOAD),
             MAX_RECOVERY_PARTICIPATION_REQUEST_PAYLOAD)

MAX_RESPONSE_PACKET == HEADER_CELLS + RESPONSE_PREFIX

ArtifactKind == 1..4
TransitionKeyProvider == 1..3
RecoveryParticipantKeyProvider == 1..3
RejectionCode == 1..7

-----------------------------------------------------------------------------
(* Validation. *)

(* A canonical lowercase UUID: cell 1 and one more cell. *)
ValidatePersonaId(text) == Len(text) <= MAX_PERSONA_ID /\ Len(text) = 2 /\ text[1] = 1

ValidateArtifactLabel(text) ==
    text # <<>> /\ Len(text) <= MAX_ARTIFACT_LABEL /\ ~Contains(text, 0)

(* Cell 1 in front makes a path absolute. *)
ValidateNextSigningReference(text) ==
    /\ text # <<>> /\ Len(text) <= MAX_NEXT_SIGNING_REFERENCE
    /\ text[1] = 1 /\ ~Contains(text, 0)

ValidateRecoveryParticipantSigningReference(text) ==
    /\ text # <<>> /\ Len(text) <= MAX_RECOVERY_PARTICIPANT_SIGNING_REFERENCE
    /\ text[1] = 1 /\ ~Contains(text, 0)

(* The algorithm, its name again inside the key blob, and the key. *)
ValidateRecoveryParticipantPublicKey(text) ==
    /\ text # <<>> /\ Len(text) <= MAX_RECOVERY_PARTICIPANT_PUBLIC_KEY
    /\ ~Contains(text, 0)
    /\ Len(text) = 3 /\ text[2] = text[1]

ValidateTransition(s) ==
    /\ s.sequence # 0
    /\ (s.sequence = 1) = (s.previousSha256 = None)
    /\ ValidateNextSigningReference(s.reference)

ValidateParticipation(s) ==
    /\ ValidateRecoveryParticipantSigningReference(s.reference)
    /\ ValidateRecoveryParticipantPublicKey(s.publicKey)
    /\ s.policyVersion \in 1..MAX_RECOVERY_POLICY_VERSION
    /\ s.policyThreshold \in RecoveryThreshold
    /\ (s.headSequence = 0) = (s.headSha256 = None)

ValidateRequest(r) ==
    /\ IF r.subject.type = "recovery"
       THEN r.persona = None
       ELSE r.persona # None /\ ValidatePersonaId(r.persona)
    /\ r.subject.type = "artifact" => ValidateArtifactLabel(r.subject.label)
    /\ r.subject.type = "transition" => ValidateTransition(r.subject)
    /\ r.subject.type = "recovery" => ValidateParticipation(r.subject)

Validated(r) == IF ValidateRequest(r) THEN r ELSE None

New(persona, kind, label) ==
    Validated([persona |-> persona,
               subject |-> [type |-> "artifact", kind |-> kind, label |-> label]])

NewDomain(persona) == Validated([persona |-> persona, subject |-> [type |-> "domain"]])

NewPersonaRoot(persona) == Validated([persona |-> persona, subject |-> [type |-> "root"]])

NewPersonaTransition(persona, sequence, rootSha256, previousSha256, provider, reference) ==
    Validated([persona |-> persona,
               subject |-> [type |-> "transition", sequence |-> sequence,
                            rootSha256 |-> rootSha256, previousSha256 |-> previousSha256,
                            provider |-> provider, reference |-> reference]])

NewRecoveryParticipation(provider, reference, publicKey, rootSha256, policyVersion,
                         policySha256, policyThreshold, headSequence, headSha256) ==
    Validated([persona |-> None,
               subject |-> [type |-> "recovery", provider |-> provider,
                            reference |-> reference, publicKey |-> publicKey,
                            rootSha256 |-> rootSha256, policyVersion |-> policyVersion,
                            policySha256 |-> policySha256, policyThreshold |-> policyThreshold,
                            headSequence |-> headSequence, headSha256 |-> headSha256]])

-----------------------------------------------------------------------------
(* Encoding. *)

EncodeHeader(type, payloadLen) ==
    <<MAGIC, PROTOCOL_MAJOR, PROTOCOL_MINOR, type, FLAGS_NONE, payloadLen>>

Presence(sha256) == IF sha256 = None THEN 0 ELSE 1
OrZero(sha256) == IF sha256 = None THEN 0 ELSE sha256

EncodeArtifactSignRequest(r, s) ==
    EncodeHeader(MESSAGE_SIGN_REQUEST, ARTIFACT_REQUEST_PREFIX + Len(r.persona) + Len(s.label))
    \o <<s.kind, 0, Len(r.persona), Len(s.label)>> \o r.persona \o s.label

EncodeSinglePersonaRequest(r, type) ==
    EncodeHeader(type, DOMAIN_REQUEST_PREFIX + Len(r.persona))
    \o <<Len(r.persona), 0>> \o r.persona

EncodeDomainSignRequest(r) == EncodeSinglePersonaRequest(r, MESSAGE_DOMAIN_SIGN_REQUEST)

EncodePersonaRootSignRequest(r) ==
    EncodeSinglePersonaRequest(r, MESSAGE_PERSONA_ROOT_SIGN_REQUEST)

EncodePersonaTransitionSignRequest(r, s) ==
    EncodeHeader(MESSAGE_PERSONA_TRANSITION_SIGN_REQUEST,
                 PERSONA_TRANSITION_REQUEST_PREFIX + Len(r.persona) + Len(s.reference))
    \o <<s.provider, Presence(s.previousSha256), 0, s.sequence, Len(r.persona),
         Len(s.reference), 0, s.rootSha256, OrZero(s.previousSha256)>>
    \o r.persona \o s.reference

EncodeRecoveryParticipationRequest(r, s) ==
    EncodeHeader(MESSAGE_RECOVERY_PARTICIPATION_REQUEST,
                 RECOVERY_PARTICIPATION_REQUEST_PREFIX + Len(s.reference) + Len(s.publicKey))
    \o <<s.provider, Presence(s.headSha256), 0, s.policyVersion, s.policyThreshold,
         s.headSequence, Len(s.reference), Len(s.publicKey), 0, s.rootSha256, s.policySha256,
         OrZero(s.headSha256)>>
    \o s.reference \o s.publicKey

EncodeSignRequest(r) ==
    IF ~ValidateRequest(r) THEN None
    ELSE CASE r.subject.type = "artifact" -> EncodeArtifactSignRequest(r, r.subject)
           [] r.subject.type = "domain" -> EncodeDomainSignRequest(r)
           [] r.subject.type = "root" -> EncodePersonaRootSignRequest(r)
           [] r.subject.type = "transition" -> EncodePersonaTransitionSignRequest(r, r.subject)
           [] r.subject.type = "recovery" -> EncodeRecoveryParticipationRequest(r, r.subject)

(* A response is "approved" or a rejection with its code. *)
Approved == [approved |-> TRUE, code |-> 0]
Rejected(code) == [approved |-> FALSE, code |-> code]

EncodeSignResponse(response) ==
    IF response.approved
    THEN EncodeHeader(MESSAGE_SIGN_APPROVED, 0)
    ELSE EncodeHeader(MESSAGE_SIGN_REJECTED, RESPONSE_PREFIX) \o <<response.code, 0>>

-----------------------------------------------------------------------------
(* Decoding. *)

DecodeCommonHeader(message) ==
    IF /\ Len(message) >= HEADER_CELLS
       /\ message[1] = MAGIC
       /\ message[2] = PROTOCOL_MAJOR /\ message[3] = PROTOCOL_MINOR
       /\ message[5] = FLAGS_NONE
    THEN message[4]
    ELSE None

DecodeHeader(message, type, maximum) ==
    /\ DecodeCommonHeader(message) = type
    /\ message[6] <= maximum
    /\ Len(message) = HEADER_CELLS + message[6]

Payload(message) == SubSeq(message, HEADER_CELLS + 1, HEADER_CELLS + message[6])

Text(c, start, length) == SubSeq(c, start + 1, start + length)

DecodeArtifactSignRequest(message) ==
    LET c == Payload(message) IN
    IF /\ DecodeHeader(message, MESSAGE_SIGN_REQUEST, MAX_ARTIFACT_REQUEST_PAYLOAD)
       /\ Len(c) >= ARTIFACT_REQUEST_PREFIX /\ c[2] = 0
       /\ c[1] \in ArtifactKind
       /\ Len(c) = ARTIFACT_REQUEST_PREFIX + c[3] + c[4]
    THEN New(Text(c, ARTIFACT_REQUEST_PREFIX, c[3]), c[1],
             Text(c, ARTIFACT_REQUEST_PREFIX + c[3], c[4]))
    ELSE None

(* The persona, None for a malformed packet. *)
DecodeSinglePersonaRequest(message, type) ==
    LET c == Payload(message) IN
    IF /\ DecodeHeader(message, type, MAX_DOMAIN_REQUEST_PAYLOAD)
       /\ Len(c) >= DOMAIN_REQUEST_PREFIX /\ c[2] = 0
       /\ Len(c) = DOMAIN_REQUEST_PREFIX + c[1]
    THEN Text(c, DOMAIN_REQUEST_PREFIX, c[1])
    ELSE None

DecodeDomainSignRequest(message) ==
    LET persona == DecodeSinglePersonaRequest(message, MESSAGE_DOMAIN_SIGN_REQUEST)
    IN IF persona = None THEN None ELSE NewDomain(persona)

DecodePersonaRootSignRequest(message) ==
    LET persona == DecodeSinglePersonaRequest(message, MESSAGE_PERSONA_ROOT_SIGN_REQUEST)
    IN IF persona = None THEN None ELSE NewPersonaRoot(persona)

ValidPresence(presence, sha256) == presence \in 0..1 /\ (presence = 0 => sha256 = 0)

Optional(presence, sha256) == IF presence = 0 THEN None ELSE sha256

DecodePersonaTransitionSignRequest(message) ==
    LET c == Payload(message) IN
    IF /\ DecodeHeader(message, MESSAGE_PERSONA_TRANSITION_SIGN_REQUEST,
                       MAX_PERSONA_TRANSITION_REQUEST_PAYLOAD)
       /\ Len(c) >= PERSONA_TRANSITION_REQUEST_PREFIX /\ c[3] = 0 /\ c[7] = 0
       /\ c[1] \in TransitionKeyProvider
       /\ Len(c) = PERSONA_TRANSITION_REQUEST_PREFIX + c[5] + c[6]
       /\ ValidPresence(c[2], c[9])
    THEN NewPersonaTransition(Text(c, PERSONA_TRANSITION_REQUEST_PREFIX, c[5]), c[4], c[8],
                              Optional(c[2], c[9]), c[1],
                              Text(c, PERSONA_TRANSITION_REQUEST_PREFIX + c[5], c[6]))
    ELSE None

DecodeRecoveryParticipationRequest(message) ==
    LET c == Payload(message) IN
    IF /\ DecodeHeader(message, MESSAGE_RECOVERY_PARTICIPATION_REQUEST,
                       MAX_RECOVERY_PARTICIPATION_REQUEST_PAYLOAD)
       /\ Len(c) >= RECOVERY_PARTICIPATION_REQUEST_PREFIX /\ c[3] = 0 /\ c[9] = 0
       /\ c[1] \in RecoveryParticipantKeyProvider
       /\ Len(c) = RECOVERY_PARTICIPATION_REQUEST_PREFIX + c[7] + c[8]
       /\ ValidPresence(c[2], c[12])
    THEN NewRecoveryParticipation(
             c[1], Text(c, RECOVERY_PARTICIPATION_REQUEST_PREFIX, c[7]),
             Text(c, RECOVERY_PARTICIPATION_REQUEST_PREFIX + c[7], c[8]), c[10], c[4], c[11],
             c[5], c[6], Optional(c[2], c[12]))
    ELSE None

DecodeSignRequest(message) ==
    LET type == DecodeCommonHeader(message) IN
    CASE type = MESSAGE_SIGN_REQUEST -> DecodeArtifactSignRequest(message)
      [] type = MESSAGE_DOMAIN_SIGN_REQUEST -> DecodeDomainSignRequest(message)
      [] type = MESSAGE_PERSONA_ROOT_SIGN_REQUEST -> DecodePersonaRootSignRequest(message)
      [] type = MESSAGE_PERSONA_TRANSITION_SIGN_REQUEST ->
            DecodePersonaTransitionSignRequest(message)
      [] type = MESSAGE_RECOVERY_PARTICIPATION_REQUEST ->
            DecodeRecoveryParticipationRequest(message)
      [] OTHER -> None

DecodeSignResponse(message) ==
    LET type == DecodeCommonHeader(message) IN
    CASE type = MESSAGE_SIGN_APPROVED ->
            IF DecodeHeader(message, MESSAGE_SIGN_APPROVED, 0) THEN Approved ELSE None
      [] type = MESSAGE_SIGN_REJECTED ->
            IF /\ DecodeHeader(message, MESSAGE_SIGN_REJECTED, RESPONSE_PREFIX)
               /\ Len(Payload(message)) = RESPONSE_PREFIX /\ Payload(message)[2] = 0
               /\ Payload(message)[1] \in RejectionCode
            THEN Rejected(Payload(message)[1])
            ELSE None
      [] OTHER -> None

-----------------------------------------------------------------------------
(* The Linux transport of a-quo-ipc on one connection: a request packet with    *)
(* one file descriptor, the daemon's snapshot of that file, and a response      *)
(* packet with the sealed proof.  The client keeps its descriptors: it may      *)
(* write to the file while the daemon copies it, and move the shared offset of  *)
(* a descriptor it sent or received.  Either end may be another program of the  *)
(* same user, or of another user.                                               *)
(*                                                                              *)
(* A file is a record of its content (a sequence of bytes), its seals and its   *)
(* shared offset.                                                               *)
CONSTANTS
    Requests,        \* the requests clients make
    Packets,         \* the request packets that may arrive
    Contents,        \* what a file may contain
    Codes,           \* the rejections the daemon may send
    MAXIMUM,         \* the snapshot limit of the request's kind, in bytes
    MAX_PROOF,       \* MAX_PROOF_BYTES
    BUFFER,          \* the size of the copy buffer
    MaxChanges       \* bound: changes to a file by the other end

VARIABLES
    sameUser,    \* the two ends run as the same user
    honest,      \* the ends whose program is this one
    input,       \* the file behind the descriptor of the request
    sent,        \* the request the client encoded
    inFlight,    \* the packet on its way, None when there is none
    daemon,      \* "receive", "copy", "seal", "decide", "closed"
    request,     \* what receive_sign_request returned
    snapshot,    \* the memfd: content, digest (the bytes hashed), seals
    proof,       \* the memfd of the proof, None before there is one
    client,      \* "send", "wait", "read", "done", "failed"
    answer,      \* what receive_sign_response returned
    bytes,       \* what read_bytes returned
    changes

vars == <<sameUser, honest, sent, input, inFlight, daemon, request, snapshot, proof, client,
          answer, bytes, changes>>

SNAPSHOT_SEALS == {"seal", "shrink", "grow", "write"}

FileOf(content, seals) == [content |-> content, seals |-> seals, offset |-> 0]

Smaller(a, b) == IF a < b THEN a ELSE b

Init ==
    /\ sameUser \in BOOLEAN
    /\ honest \in {{"client", "daemon"}, {"client"}, {"daemon"}}
    /\ \E content \in Contents, seals \in {{}, SNAPSHOT_SEALS}, regular \in BOOLEAN :
           input = [content |-> content, seals |-> seals, regular |-> regular]
    /\ sent = None /\ inFlight = None
    /\ daemon = "receive" /\ request = None
    /\ snapshot = [content |-> <<>>, digest |-> <<>>, seals |-> {}, offset |-> 0]
    /\ proof = None
    /\ client = "send" /\ answer = None /\ bytes = None
    /\ changes = 0

-----------------------------------------------------------------------------
(* The request. *)

(* send_sign_request: one packet, one descriptor. *)
SendSignRequest ==
    /\ client = "send" /\ "client" \in honest
    /\ \E r \in Requests :
           IF EncodeSignRequest(r) = None
           THEN client' = "failed" /\ UNCHANGED <<sent, inFlight>>
           ELSE /\ client' = "wait" /\ sent' = r
                /\ inFlight' = [cells |-> EncodeSignRequest(r), files |-> 1, other |-> FALSE]
    /\ UNCHANGED <<sameUser, honest, input, daemon, request, snapshot, proof, answer, bytes,
                   changes>>

(* Another program sends any packet, with any number of descriptors. *)
SendAnything ==
    /\ client = "send" /\ "client" \notin honest
    /\ \E p \in Packets, n \in 0..3, other \in BOOLEAN :
           inFlight' = [cells |-> p, files |-> n, other |-> other]
    /\ client' = "wait"
    /\ UNCHANGED <<sameUser, honest, sent, input, daemon, request, snapshot, proof, answer, bytes,
                   changes>>

(* validate_received_packet and collect_descriptors, with room for two of them. *)
Intact(packet, maximum) ==
    Len(packet.cells) <= maximum /\ packet.files <= 2 /\ ~packet.other

ValidateTransitionPublicKeyDescriptor ==
    input.regular /\ Len(input.content) \in 1..MAXIMUM

ValidateRecoveryParticipationRequestDescriptor ==
    /\ input.regular /\ Len(input.content) \in 1..MAXIMUM
    /\ SNAPSHOT_SEALS \subseteq input.seals

MayReceiveRequest(r) ==
    /\ sameUser /\ Intact(inFlight, MAX_REQUEST_PACKET) /\ inFlight.files = 1
    /\ r # None
    /\ r.subject.type = "transition" => ValidateTransitionPublicKeyDescriptor
    /\ r.subject.type = "recovery" => ValidateRecoveryParticipationRequestDescriptor

(* The daemon closes the connection, with nothing sent. *)
Drop == daemon' = "closed" /\ inFlight' = None

(* receive_sign_request, and the checks snapshot_artifact starts with. *)
ReceiveSignRequest ==
    LET r == DecodeSignRequest(inFlight.cells) IN
    /\ daemon = "receive" /\ inFlight # None
    /\ IF MayReceiveRequest(r)
       THEN /\ request' = r /\ UNCHANGED inFlight
            /\ IF input.regular /\ Len(input.content) <= MAXIMUM
               THEN daemon' = "copy"
               ELSE daemon' = "decide"
       ELSE Drop /\ UNCHANGED request
    /\ UNCHANGED <<sameUser, honest, sent, input, snapshot, proof, client, answer, bytes,
                   changes>>

-----------------------------------------------------------------------------
(* The snapshot. *)

ReadLimit ==
    LET remaining == MAXIMUM - Len(snapshot.content)
    IN IF remaining < BUFFER THEN remaining + 1 ELSE BUFFER

(* The bytes of the buffer go to the memfd and to the hash. *)
CopyBytes(n) ==
    LET size == Len(snapshot.content)
        buffer == SubSeq(input.content, size + 1, size + n)
    IN snapshot' = [snapshot EXCEPT !.content = @ \o buffer, !.digest = @ \o buffer]

(* One pass of the loop: read_at may return fewer bytes than there are. *)
CopyStep ==
    LET size == Len(snapshot.content)
        available == Smaller(ReadLimit, Len(input.content) - size)
    IN
    /\ daemon = "copy"
    /\ \/ available <= 0 /\ daemon' = "seal" /\ UNCHANGED snapshot
       \/ \E n \in 1..available :
              IF n > MAXIMUM - size
              THEN daemon' = "decide" /\ UNCHANGED snapshot
              ELSE CopyBytes(n) /\ UNCHANGED daemon
    /\ UNCHANGED <<sameUser, honest, sent, input, inFlight, request, proof, client, answer, bytes,
                   changes>>

(* apply_and_verify_seals; a read error during the copy ends in the same place. *)
SealSnapshot ==
    /\ daemon = "seal"
    /\ snapshot' = [snapshot EXCEPT !.seals = SNAPSHOT_SEALS]
    /\ daemon' = "decide"
    /\ UNCHANGED <<sameUser, honest, sent, input, inFlight, request, proof, client, answer, bytes,
                   changes>>

CopyFails ==
    /\ daemon \in {"copy", "seal"}
    /\ daemon' = "decide"
    /\ UNCHANGED <<sameUser, honest, sent, input, inFlight, request, snapshot, proof, client, answer,
                   bytes, changes>>

Snapshotted == snapshot.seals # {}

-----------------------------------------------------------------------------
(* The response. *)

(* seal_proof_bytes *)
SealProofBytes(content) == FileOf(content, SNAPSHOT_SEALS)

ValidateProofFile(file) ==
    Len(file.content) \in 1..MAX_PROOF /\ SNAPSHOT_SEALS \subseteq file.seals

Reply(cells, files) ==
    inFlight' = [cells |-> cells, files |-> files, other |-> FALSE]

SendSignApproved ==
    /\ daemon = "decide" /\ Snapshotted
    /\ \E content \in Contents :
           /\ Len(content) \in 1..MAX_PROOF
           /\ proof' = SealProofBytes(content)
    /\ Reply(EncodeSignResponse(Approved), 1)
    /\ daemon' = "closed"
    /\ UNCHANGED <<sameUser, honest, sent, input, request, snapshot, client, answer, bytes, changes>>

SendSignRejected ==
    /\ daemon = "decide"
    /\ \E code \in Codes : Reply(EncodeSignResponse(Rejected(code)), 0)
    /\ daemon' = "closed"
    /\ UNCHANGED <<sameUser, honest, sent, input, request, snapshot, proof, client, answer, bytes,
                   changes>>

(* Another program answers: any file, any number of descriptors. *)
AnswerAnything ==
    /\ client = "wait" /\ "daemon" \notin honest /\ daemon # "closed"
    /\ \E content \in Contents, seals \in {{}, {"write"}, SNAPSHOT_SEALS}, n \in 0..3,
          response \in {Approved, Rejected(1), Rejected(8)} :
           proof' = FileOf(content, seals) /\ Reply(EncodeSignResponse(response), n)
    /\ daemon' = "closed"
    /\ UNCHANGED <<sameUser, honest, sent, input, request, snapshot, client, answer, bytes, changes>>

MayReceiveResponse(response) ==
    /\ response # None
    /\ IF response.approved
       THEN inFlight.files = 1 /\ ValidateProofFile(proof)
       ELSE inFlight.files = 0

(* receive_sign_response: seek to the start of the proof, and keep its size. *)
ReceiveSignResponse ==
    LET response == DecodeSignResponse(inFlight.cells) IN
    /\ client = "wait" /\ "client" \in honest /\ daemon = "closed"
    /\ IF inFlight # None /\ sameUser /\ Intact(inFlight, MAX_RESPONSE_PACKET)
          /\ MayReceiveResponse(response)
       THEN LET hasProof == inFlight.files = 1 IN
            /\ answer' = [response |-> response,
                          size |-> IF hasProof THEN Len(proof.content) ELSE None]
            /\ client' = (IF hasProof THEN "read" ELSE "done")
            /\ proof' = (IF hasProof THEN [proof EXCEPT !.offset = 0] ELSE proof)
       ELSE client' = "failed" /\ UNCHANGED <<answer, proof>>
    /\ inFlight' = None
    /\ UNCHANGED <<sameUser, honest, sent, input, daemon, request, snapshot, bytes, changes>>

(* SealedProof::read_bytes *)
ReadBytes ==
    /\ client = "read"
    /\ bytes' = SubSeq(proof.content, 1, answer.size)
    /\ client' = "done"
    /\ UNCHANGED <<sameUser, honest, sent, input, inFlight, daemon, request, snapshot, proof, answer,
                   changes>>

(* CLIENT_IO_TIMEOUT, or a send that fails because the daemon is gone. *)
ClientTimesOut ==
    /\ client = "wait"
    /\ client' = "failed"
    /\ UNCHANGED <<sameUser, honest, sent, input, inFlight, daemon, request, snapshot, proof, answer,
                   bytes, changes>>

-----------------------------------------------------------------------------
(* What a holder of a descriptor can do to a file.  Seals are the kernel's. *)

MayChange(file, content) ==
    /\ content # file.content
    /\ Len(content) < Len(file.content) => "shrink" \notin file.seals
    /\ Len(content) > Len(file.content) => "grow" \notin file.seals
    /\ "write" \notin file.seals

ChangeInput ==
    /\ changes < MaxChanges
    /\ \E content \in Contents :
           MayChange(input, content) /\ input' = [input EXCEPT !.content = content]
    /\ changes' = changes + 1
    /\ UNCHANGED <<sameUser, honest, sent, inFlight, daemon, request, snapshot, proof, client, answer,
                   bytes>>

ChangeProof ==
    /\ changes < MaxChanges /\ proof # None
    /\ \/ \E content \in Contents :
              MayChange(proof, content) /\ proof' = [proof EXCEPT !.content = content]
       \/ \E n \in 0..Len(proof.content) :
              n # proof.offset /\ proof' = [proof EXCEPT !.offset = n]
    /\ changes' = changes + 1
    /\ UNCHANGED <<sameUser, honest, sent, input, inFlight, daemon, request, snapshot, client, answer,
                   bytes>>

Next ==
    \/ SendSignRequest \/ SendAnything \/ ReceiveSignRequest
    \/ CopyStep \/ SealSnapshot \/ CopyFails
    \/ SendSignApproved \/ SendSignRejected \/ AnswerAnything
    \/ ReceiveSignResponse \/ ReadBytes \/ ClientTimesOut
    \/ ChangeInput \/ ChangeProof

Spec == Init /\ [][Next]_vars

-----------------------------------------------------------------------------
(* The daemon works on a request only if it came from the same user, in one       *)
(* packet of exactly the form this request has, with exactly one descriptor.      *)
RequestIsThePacket ==
    daemon = "copy" =>
        /\ sameUser /\ inFlight.files = 1
        /\ EncodeSignRequest(request) = inFlight.cells

(* A request this client encodes is received as that request, if the file behind  *)
(* the descriptor is as the daemon wants it.                                      *)
RequestArrives ==
    sent # None /\ daemon # "receive" /\ sameUser /\ changes = 0
    /\ input.regular /\ Len(input.content) \in 1..MAXIMUM /\ input.seals = SNAPSHOT_SEALS
    /\ "daemon" \in honest
        => request = sent

(* The digest and size the daemon shows and signs are those of the sealed copy,   *)
(* whatever the client wrote to its file while it was copied.                     *)
DigestIsOfTheSnapshot == snapshot.digest = snapshot.content

(* A file longer than the limit is refused and never cut: when the copy ends, it  *)
(* has reached the end the file had at that moment, even if the file grew.        *)
CopiesToTheEnd ==
    daemon = "copy" /\ daemon' = "seal" => Len(input.content) <= Len(snapshot.content)

(* The sealed proof of an approval never changes while the client holds it.       *)
ProofIsImmutable ==
    (answer # None /\ answer.size # None) => proof'.content = proof.content

(* An approval always has its proof, whole, and a rejection never has one; this   *)
(* holds for any program at the other end.                                        *)
ProofIffApproved ==
    client = "done" =>
        /\ answer.response.approved = (bytes # None)
        /\ bytes # None => bytes = proof.content /\ bytes # <<>> /\ Len(bytes) <= MAX_PROOF
=============================================================================
