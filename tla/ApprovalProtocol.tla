--------------------------- MODULE ApprovalProtocol ---------------------------
(* The pipe protocol between the signing daemon and its one-shot consent        *)
(* process: the encoders and decoders of a-quo-approval, and the reader that    *)
(* takes one message from a pipe.                                               *)
(*                                                                              *)
(* A message is a sequence of cells.  A number, an identifier, a digest and a   *)
(* run of reserved bytes are one cell each; a text is a sequence of cells, so   *)
(* that the length fields have something to count.  In a text cell 0 is a       *)
(* character the display rules refuse.  A nil identifier and the all-zero       *)
(* digest are 0.  Offsets are the offsets of the fields, counted in cells.      *)
EXTENDS Integers, Sequences, SequencesExt

CONSTANTS None, Prompts, Decisions,
          MaxDisturbances     \* bound: differences between a message and what is sent

VARIABLES
    channel,      \* "prompt" or "decision": what the two ends exchange
    offered,      \* what the writer was given to send
    wire,         \* the cells the writer intends to put on the pipe
    written,      \* how many of them are on the pipe
    writer,       \* "idle", "writing", "closed" or "refused"
    reader,       \* "header", "payload", "end" or "done"
    received,     \* the message the reader returns, None before that or on error
    disturbances

vars == <<channel, offered, wire, written, writer, reader, received, disturbances>>

HEADER_CELLS == 6
MAGIC == 1
PROTOCOL_MAJOR == 1
PROTOCOL_MINOR == 0
FLAGS_NONE == 0

MESSAGE_ARTIFACT_PROMPT == 1
MESSAGE_APPROVE == 2
MESSAGE_DECLINE == 3
MESSAGE_CANCEL == 4
MESSAGE_DOMAIN_PROMPT == 5
MESSAGE_PERSONA_ROOT_PROMPT == 6
MESSAGE_PERSONA_TRANSITION_PROMPT == 7
MESSAGE_RECOVERY_PARTICIPATION_PROMPT == 8

(* The limits of the texts, in cells. *)
MAX_PERSONA_LABEL == 1
MAX_KEY_FINGERPRINT == 2
MAX_ARTIFACT_LABEL == 2
MAX_DOMAIN == 3
MAX_DNS_TXT_VALUE == 2
MAX_PERSONA_ANCHOR == 2
MAX_RECOVERY_CEREMONY_ID == 2
MAX_RECOVERY_POLICY_VERSION == 2
RecoveryThreshold == 2..3
DOMAIN_MAX_VALIDITY == 2

ARTIFACT_PROMPT_PREFIX == 14
DOMAIN_PROMPT_PREFIX == 14
PERSONA_ROOT_PROMPT_PREFIX == 13
PERSONA_TRANSITION_PROMPT_PREFIX == 18
RECOVERY_PARTICIPATION_PROMPT_PREFIX == 24
DECISION_PAYLOAD == 1

MAX_ARTIFACT_PROMPT_PAYLOAD ==
    ARTIFACT_PROMPT_PREFIX + MAX_PERSONA_LABEL + MAX_KEY_FINGERPRINT + MAX_ARTIFACT_LABEL
MAX_DOMAIN_PROMPT_PAYLOAD ==
    DOMAIN_PROMPT_PREFIX + MAX_PERSONA_LABEL + MAX_KEY_FINGERPRINT + MAX_DOMAIN
    + MAX_DNS_TXT_VALUE
MAX_PERSONA_ROOT_PROMPT_PAYLOAD ==
    PERSONA_ROOT_PROMPT_PREFIX + MAX_PERSONA_LABEL + MAX_KEY_FINGERPRINT + MAX_PERSONA_ANCHOR
MAX_PERSONA_TRANSITION_PROMPT_PAYLOAD ==
    PERSONA_TRANSITION_PROMPT_PREFIX + MAX_PERSONA_LABEL + 2 * MAX_KEY_FINGERPRINT
    + MAX_PERSONA_ANCHOR
MAX_RECOVERY_PARTICIPATION_PROMPT_PAYLOAD ==
    RECOVERY_PARTICIPATION_PROMPT_PREFIX + MAX_PERSONA_LABEL + 3 * MAX_KEY_FINGERPRINT
    + MAX_PERSONA_ANCHOR + MAX_RECOVERY_CEREMONY_ID

Larger(a, b) == IF a > b THEN a ELSE b

(* A plausible slip: the recovery prompt was added without raising the limit. *)
SlipOldLimit ==
    Larger(Larger(MAX_ARTIFACT_PROMPT_PAYLOAD, MAX_DOMAIN_PROMPT_PAYLOAD),
           Larger(MAX_PERSONA_ROOT_PROMPT_PAYLOAD, MAX_PERSONA_TRANSITION_PROMPT_PAYLOAD))

MAX_PROMPT_PAYLOAD ==
    Larger(Larger(Larger(MAX_ARTIFACT_PROMPT_PAYLOAD, MAX_DOMAIN_PROMPT_PAYLOAD),
                  Larger(MAX_PERSONA_ROOT_PROMPT_PAYLOAD,
                         MAX_PERSONA_TRANSITION_PROMPT_PAYLOAD)),
           MAX_RECOVERY_PARTICIPATION_PROMPT_PAYLOAD)

ArtifactKind == 1..4
PersonaPurpose == 1..5
RECOVERY_AUTHORITY == 1
NEXT_SIGNING_KEY == 2
RecoveryParticipantRole == {RECOVERY_AUTHORITY, NEXT_SIGNING_KEY}
RecoveryReason == 1..2

-----------------------------------------------------------------------------
(* Validation. *)

ValidateText(text, maximum) == text # <<>> /\ Len(text) <= maximum /\ ~Contains(text, 0)

(* "SHA256:" is a cell of its own, and one more cell is the canonical digest. *)
ValidateKeyFingerprint(text) ==
    ValidateText(text, MAX_KEY_FINGERPRINT) /\ Len(text) = 2 /\ text[1] = 1

ValidatePersonaAnchor(text) == ValidateText(text, MAX_PERSONA_ANCHOR) /\ Len(text) = 2

ValidateRecoveryCeremonyId(text) ==
    ValidateText(text, MAX_RECOVERY_CEREMONY_ID) /\ Len(text) = 2

(* A cell of a domain is one of its labels; a name ending in label 2 is special. *)
IsSpecialUseDomain(text) == Last(text) = 2

ValidateDomainApproval(s) ==
    /\ ValidateText(s.domain, MAX_DOMAIN)
    /\ Len(s.domain) >= 2 /\ ~IsSpecialUseDomain(s.domain)
    /\ ValidateText(s.dnsTxtValue, MAX_DNS_TXT_VALUE)
    /\ Len(s.dnsTxtValue) = 2 /\ s.dnsTxtValue[1] = 1
    /\ s.issuedAt >= 0
    /\ s.expiresAt - s.issuedAt \in 1..DOMAIN_MAX_VALIDITY

ValidatePersonaRootApproval(s) == ValidatePersonaAnchor(s.anchor) /\ s.issuedAt >= 0

ValidatePersonaTransitionApproval(p, s) ==
    /\ ValidatePersonaAnchor(s.anchor)
    /\ s.issuedAt >= 0
    /\ s.sequence # 0
    /\ (s.sequence = 1) = (s.previousSha256 = None)
    /\ p.key = s.previousKey
    /\ ValidateKeyFingerprint(s.previousKey) /\ ValidateKeyFingerprint(s.nextKey)
    /\ s.previousKey # s.nextKey

ValidateRecoveryParticipationApproval(p, s) ==
    /\ ValidatePersonaAnchor(s.anchor) /\ ValidateRecoveryCeremonyId(s.ceremonyId)
    /\ s.expiresAt > 0
    /\ s.policyVersion \in 1..MAX_RECOVERY_POLICY_VERSION
    /\ s.policyThreshold \in RecoveryThreshold
    /\ (s.headSequence = 0) = (s.headSha256 = None)
    /\ ValidateKeyFingerprint(s.participantKey) /\ p.key = s.participantKey
    /\ ValidateKeyFingerprint(s.previousKey) /\ ValidateKeyFingerprint(s.nextKey)
    /\ s.previousKey # s.nextKey
    /\ s.role = RECOVERY_AUTHORITY => s.participantKey \notin {s.previousKey, s.nextKey}
    /\ s.role = NEXT_SIGNING_KEY => s.participantKey = s.nextKey

ValidatePrompt(p) ==
    /\ p.request # 0
    /\ IF p.subject.type = "recovery"
       THEN p.persona = None /\ p.purpose = None
       ELSE p.persona \notin {None, 0} /\ p.purpose # None
    /\ ValidateText(p.label, MAX_PERSONA_LABEL)
    /\ ValidateKeyFingerprint(p.key)
    /\ CASE p.subject.type = "artifact" -> ValidateText(p.subject.label, MAX_ARTIFACT_LABEL)
         [] p.subject.type = "domain" -> ValidateDomainApproval(p.subject)
         [] p.subject.type = "root" -> ValidatePersonaRootApproval(p.subject)
         [] p.subject.type = "transition" -> ValidatePersonaTransitionApproval(p, p.subject)
         [] p.subject.type = "recovery" -> ValidateRecoveryParticipationApproval(p, p.subject)
    /\ p.peer[1] # 0

-----------------------------------------------------------------------------
(* The constructors: new_with_subject validates what each of them puts together. *)

NewWithSubject(request, persona, label, purpose, key, subject, peer) ==
    LET p == [request |-> request, persona |-> persona, label |-> label, purpose |-> purpose,
              key |-> key, subject |-> subject, peer |-> peer]
    IN IF ValidatePrompt(p) THEN p ELSE None

New(request, persona, label, purpose, key, kind, artifactLabel, sha256, size, peer) ==
    NewWithSubject(request, persona, label, purpose, key,
                   [type |-> "artifact", kind |-> kind, label |-> artifactLabel,
                    sha256 |-> sha256, size |-> size], peer)

NewDomain(request, persona, label, purpose, key, domain, dnsTxtValue, issuedAt, expiresAt, peer) ==
    NewWithSubject(request, persona, label, purpose, key,
                   [type |-> "domain", domain |-> domain, dnsTxtValue |-> dnsTxtValue,
                    issuedAt |-> issuedAt, expiresAt |-> expiresAt], peer)

NewPersonaRoot(request, persona, label, purpose, key, anchor, rootSha256, issuedAt, peer) ==
    NewWithSubject(request, persona, label, purpose, key,
                   [type |-> "root", anchor |-> anchor, rootSha256 |-> rootSha256,
                    issuedAt |-> issuedAt], peer)

NewPersonaTransition(request, persona, label, purpose, previousKey, anchor, rootSha256,
                     sequence, previousSha256, issuedAt, nextKey, sha256, peer) ==
    NewWithSubject(request, persona, label, purpose, previousKey,
                   [type |-> "transition", anchor |-> anchor, rootSha256 |-> rootSha256,
                    sequence |-> sequence, previousSha256 |-> previousSha256,
                    issuedAt |-> issuedAt, previousKey |-> previousKey, nextKey |-> nextKey,
                    sha256 |-> sha256], peer)

NewRecoveryParticipation(request, label, participantKey, requestSha256, ceremonyId, expiresAt,
                         anchor, rootSha256, policyVersion, policySha256, policyThreshold,
                         headSequence, headSha256, reason, previousKey, nextKey, role, peer) ==
    NewWithSubject(request, None, label, None, participantKey,
                   [type |-> "recovery", requestSha256 |-> requestSha256,
                    ceremonyId |-> ceremonyId, expiresAt |-> expiresAt, anchor |-> anchor,
                    rootSha256 |-> rootSha256, policyVersion |-> policyVersion,
                    policySha256 |-> policySha256, policyThreshold |-> policyThreshold,
                    headSequence |-> headSequence, headSha256 |-> headSha256,
                    reason |-> reason, previousKey |-> previousKey, nextKey |-> nextKey,
                    role |-> role, participantKey |-> participantKey], peer)

-----------------------------------------------------------------------------
(* Encoding. *)

EncodeHeader(type, payloadLen) ==
    <<MAGIC, PROTOCOL_MAJOR, PROTOCOL_MINOR, type, FLAGS_NONE, payloadLen>>

Presence(sha256) == IF sha256 = None THEN 0 ELSE 1
OrZero(sha256) == IF sha256 = None THEN 0 ELSE sha256

EncodeArtifactPrompt(p, s) ==
    EncodeHeader(MESSAGE_ARTIFACT_PROMPT,
                 ARTIFACT_PROMPT_PREFIX + Len(p.label) + Len(p.key) + Len(s.label))
    \o <<s.kind, p.purpose, 0>> \o p.peer
    \o <<s.size, p.request, p.persona, s.sha256, Len(p.label), Len(p.key), Len(s.label), 0>>
    \o p.label \o p.key \o s.label

EncodeDomainPrompt(p, s) ==
    EncodeHeader(MESSAGE_DOMAIN_PROMPT,
                 DOMAIN_PROMPT_PREFIX + Len(p.label) + Len(p.key) + Len(s.domain)
                 + Len(s.dnsTxtValue))
    \o <<p.purpose, 0>> \o p.peer
    \o <<s.issuedAt, s.expiresAt, p.request, p.persona, Len(p.label), Len(p.key),
         Len(s.domain), Len(s.dnsTxtValue), 0>>
    \o p.label \o p.key \o s.domain \o s.dnsTxtValue

EncodePersonaRootPrompt(p, s) ==
    EncodeHeader(MESSAGE_PERSONA_ROOT_PROMPT,
                 PERSONA_ROOT_PROMPT_PREFIX + Len(p.label) + Len(p.key) + Len(s.anchor))
    \o <<p.purpose, 0>> \o p.peer
    \o <<s.issuedAt, p.request, p.persona, s.rootSha256, Len(p.label), Len(p.key),
         Len(s.anchor), 0>>
    \o p.label \o p.key \o s.anchor

EncodePersonaTransitionPrompt(p, s) ==
    EncodeHeader(MESSAGE_PERSONA_TRANSITION_PROMPT,
                 PERSONA_TRANSITION_PROMPT_PREFIX + Len(p.label) + Len(s.previousKey)
                 + Len(s.nextKey) + Len(s.anchor))
    \o <<p.purpose, Presence(s.previousSha256), 0>> \o p.peer
    \o <<s.sequence, s.issuedAt, p.request, p.persona, s.rootSha256, OrZero(s.previousSha256),
         s.sha256, Len(p.label), Len(s.previousKey), Len(s.nextKey), Len(s.anchor), 0>>
    \o p.label \o s.previousKey \o s.nextKey \o s.anchor

EncodeRecoveryParticipationPrompt(p, s) ==
    EncodeHeader(MESSAGE_RECOVERY_PARTICIPATION_PROMPT,
                 RECOVERY_PARTICIPATION_PROMPT_PREFIX + Len(p.label) + Len(s.participantKey)
                 + Len(s.previousKey) + Len(s.nextKey) + Len(s.anchor) + Len(s.ceremonyId))
    \o <<s.role, s.reason, Presence(s.headSha256), 0>> \o p.peer
    \o <<s.policyVersion, s.policyThreshold, s.headSequence, 0, s.expiresAt, p.request,
         s.requestSha256, s.rootSha256, s.policySha256, OrZero(s.headSha256), Len(p.label),
         Len(s.participantKey), Len(s.previousKey), Len(s.nextKey), Len(s.anchor),
         Len(s.ceremonyId), 0>>
    \o p.label \o s.participantKey \o s.previousKey \o s.nextKey \o s.anchor \o s.ceremonyId

EncodePrompt(p) ==
    IF ~ValidatePrompt(p) THEN None
    ELSE CASE p.subject.type = "artifact" -> EncodeArtifactPrompt(p, p.subject)
           [] p.subject.type = "domain" -> EncodeDomainPrompt(p, p.subject)
           [] p.subject.type = "root" -> EncodePersonaRootPrompt(p, p.subject)
           [] p.subject.type = "transition" -> EncodePersonaTransitionPrompt(p, p.subject)
           [] p.subject.type = "recovery" -> EncodeRecoveryParticipationPrompt(p, p.subject)

DecisionType(decision) ==
    CASE decision = "approve" -> MESSAGE_APPROVE
      [] decision = "decline" -> MESSAGE_DECLINE
      [] decision = "cancel" -> MESSAGE_CANCEL

EncodeDecision(r) ==
    EncodeHeader(DecisionType(r.decision), DECISION_PAYLOAD) \o <<r.request>>

-----------------------------------------------------------------------------
(* Decoding. *)

(* The message type, None for an unusable header. *)
DecodeCommonHeader(message) ==
    IF /\ Len(message) >= HEADER_CELLS
       /\ message[1] = MAGIC
       /\ message[2] = PROTOCOL_MAJOR /\ message[3] = PROTOCOL_MINOR
       /\ message[5] = FLAGS_NONE
    THEN message[4]
    ELSE None

PayloadLength(message) == message[6]

DecodeHeader(message, type, maximum) ==
    /\ DecodeCommonHeader(message) = type
    /\ PayloadLength(message) <= maximum
    /\ Len(message) = HEADER_CELLS + PayloadLength(message)

Payload(message) == SubSeq(message, HEADER_CELLS + 1, Len(message))

Total(lengths) == FoldLeft(LAMBDA a, b : a + b, 0, lengths)

(* The texts that follow a prefix, cut by the length fields. *)
Texts(c, prefix, lengths) ==
    [i \in DOMAIN lengths |->
        LET start == prefix + Total(SubSeq(lengths, 1, i - 1))
        IN SubSeq(c, start + 1, start + lengths[i])]

DecodeArtifactPrompt(message) ==
    LET c == Payload(message)
        lengths == SubSeq(c, 11, 13)
        text == Texts(c, ARTIFACT_PROMPT_PREFIX, lengths)
    IN IF /\ DecodeHeader(message, MESSAGE_ARTIFACT_PROMPT, MAX_ARTIFACT_PROMPT_PAYLOAD)
          /\ Len(c) >= ARTIFACT_PROMPT_PREFIX /\ c[3] = 0 /\ c[14] = 0
          /\ c[1] \in ArtifactKind /\ c[2] \in PersonaPurpose
          /\ Len(c) = ARTIFACT_PROMPT_PREFIX + Total(lengths)
       THEN New(c[8], c[9], text[1], c[2], text[2], c[1], text[3], c[10], c[7],
                SubSeq(c, 4, 6))
       ELSE None

DecodeDomainPrompt(message) ==
    LET c == Payload(message)
        lengths == SubSeq(c, 10, 13)
        text == Texts(c, DOMAIN_PROMPT_PREFIX, lengths)
    IN IF /\ DecodeHeader(message, MESSAGE_DOMAIN_PROMPT, MAX_DOMAIN_PROMPT_PAYLOAD)
          /\ Len(c) >= DOMAIN_PROMPT_PREFIX /\ c[2] = 0 /\ c[14] = 0
          /\ c[1] \in PersonaPurpose
          /\ Len(c) = DOMAIN_PROMPT_PREFIX + Total(lengths)
       THEN NewDomain(c[8], c[9], text[1], c[1], text[2], text[3], text[4], c[6], c[7],
                      SubSeq(c, 3, 5))
       ELSE None

DecodePersonaRootPrompt(message) ==
    LET c == Payload(message)
        lengths == SubSeq(c, 10, 12)
        text == Texts(c, PERSONA_ROOT_PROMPT_PREFIX, lengths)
    IN IF /\ DecodeHeader(message, MESSAGE_PERSONA_ROOT_PROMPT, MAX_PERSONA_ROOT_PROMPT_PAYLOAD)
          /\ Len(c) >= PERSONA_ROOT_PROMPT_PREFIX /\ c[2] = 0 /\ c[13] = 0
          /\ c[1] \in PersonaPurpose
          /\ Len(c) = PERSONA_ROOT_PROMPT_PREFIX + Total(lengths)
       THEN NewPersonaRoot(c[7], c[8], text[1], c[1], text[2], text[3], c[9], c[6],
                           SubSeq(c, 3, 5))
       ELSE None

(* A presence byte of 0 or 1, and nothing where a digest is absent. *)
ValidPresence(presence, sha256) == presence \in 0..1 /\ (presence = 0 => sha256 = 0)

Optional(presence, sha256) == IF presence = 0 THEN None ELSE sha256

DecodePersonaTransitionPrompt(message) ==
    LET c == Payload(message)
        lengths == SubSeq(c, 14, 17)
        text == Texts(c, PERSONA_TRANSITION_PROMPT_PREFIX, lengths)
    IN IF /\ DecodeHeader(message, MESSAGE_PERSONA_TRANSITION_PROMPT,
                          MAX_PERSONA_TRANSITION_PROMPT_PAYLOAD)
          /\ Len(c) >= PERSONA_TRANSITION_PROMPT_PREFIX /\ c[3] = 0 /\ c[18] = 0
          /\ c[1] \in PersonaPurpose
          /\ ValidPresence(c[2], c[12])
          /\ Len(c) = PERSONA_TRANSITION_PROMPT_PREFIX + Total(lengths)
       THEN NewPersonaTransition(c[9], c[10], text[1], c[1], text[2], text[4], c[11], c[7],
                                 Optional(c[2], c[12]), c[8], text[3], c[13], SubSeq(c, 4, 6))
       ELSE None

DecodeRecoveryParticipationPrompt(message) ==
    LET c == Payload(message)
        lengths == SubSeq(c, 18, 23)
        text == Texts(c, RECOVERY_PARTICIPATION_PROMPT_PREFIX, lengths)
    IN IF /\ DecodeHeader(message, MESSAGE_RECOVERY_PARTICIPATION_PROMPT,
                          MAX_RECOVERY_PARTICIPATION_PROMPT_PAYLOAD)
          /\ Len(c) >= RECOVERY_PARTICIPATION_PROMPT_PREFIX
          /\ c[4] = 0 /\ c[11] = 0 /\ c[24] = 0
          /\ c[1] \in RecoveryParticipantRole /\ c[2] \in RecoveryReason
          /\ ValidPresence(c[3], c[17])
          /\ Len(c) = RECOVERY_PARTICIPATION_PROMPT_PREFIX + Total(lengths)
       THEN NewRecoveryParticipation(c[13], text[1], text[2], c[14], text[6], c[12], text[5],
                                     c[15], c[8], c[16], c[9], c[10], Optional(c[3], c[17]),
                                     c[2], text[3], text[4], c[1], SubSeq(c, 5, 7))
       ELSE None

DecodePrompt(message) ==
    LET type == DecodeCommonHeader(message) IN
    CASE type = MESSAGE_ARTIFACT_PROMPT -> DecodeArtifactPrompt(message)
      [] type = MESSAGE_DOMAIN_PROMPT -> DecodeDomainPrompt(message)
      [] type = MESSAGE_PERSONA_ROOT_PROMPT -> DecodePersonaRootPrompt(message)
      [] type = MESSAGE_PERSONA_TRANSITION_PROMPT -> DecodePersonaTransitionPrompt(message)
      [] type = MESSAGE_RECOVERY_PARTICIPATION_PROMPT ->
            DecodeRecoveryParticipationPrompt(message)
      [] OTHER -> None

DecodeDecision(message) ==
    LET type == DecodeCommonHeader(message) IN
    IF /\ type \in {MESSAGE_APPROVE, MESSAGE_DECLINE, MESSAGE_CANCEL}
       /\ DecodeHeader(message, type, DECISION_PAYLOAD)
       /\ Len(message) = HEADER_CELLS + DECISION_PAYLOAD
    THEN [request |-> Last(message),
          decision |-> CASE type = MESSAGE_APPROVE -> "approve"
                         [] type = MESSAGE_DECLINE -> "decline"
                         [] type = MESSAGE_CANCEL -> "cancel"]
    ELSE None

-----------------------------------------------------------------------------
(* One message on a pipe.  The writer sends what it was given, or something     *)
(* close to it: another program, or another version, may be at that end.        *)

Encode(c, m) == IF c = "prompt" THEN EncodePrompt(m) ELSE EncodeDecision(m)

Decode(c, message) == IF c = "prompt" THEN DecodePrompt(message) ELSE DecodeDecision(message)

MaximumPayload == IF channel = "prompt" THEN MAX_PROMPT_PAYLOAD ELSE DECISION_PAYLOAD

Init ==
    /\ \/ channel = "prompt" /\ offered \in Prompts
       \/ channel = "decision" /\ offered \in Decisions
    /\ wire = <<>> /\ written = 0
    /\ writer = "idle" /\ reader = "header"
    /\ received = None
    /\ disturbances = 0

(* write_prompt and write_decision: nothing is written for an invalid prompt. *)
WriteMessage ==
    /\ writer = "idle"
    /\ LET message == Encode(channel, offered) IN
       IF message = None
       THEN writer' = "refused" /\ UNCHANGED wire
       ELSE writer' = "writing" /\ wire' = message
    /\ UNCHANGED <<channel, offered, written, reader, received, disturbances>>

(* Another value in one cell, one cell less, or one cell more. *)
Disturb ==
    /\ writer = "writing" /\ written = 0 /\ disturbances < MaxDisturbances
    /\ \/ \E i \in DOMAIN wire : \E v \in (IF i = 4 THEN 1..9 ELSE 0..3) :
              v # wire[i] /\ wire' = [wire EXCEPT ![i] = v]
       \/ wire' = Front(wire)
       \/ \E v \in 0..1 : wire' = Append(wire, v)
    /\ disturbances' = disturbances + 1
    /\ UNCHANGED <<channel, offered, written, writer, reader, received>>

(* The header may arrive on its own; for the reader other cuts are like these. *)
WriteSome ==
    /\ writer = "writing" /\ written < Len(wire)
    /\ written' = (IF written = 0 /\ Len(wire) > HEADER_CELLS THEN HEADER_CELLS ELSE Len(wire))
    /\ UNCHANGED <<channel, offered, wire, writer, reader, received, disturbances>>

CloseWriter ==
    /\ writer = "refused" \/ (writer = "writing" /\ written = Len(wire))
    /\ writer' = "closed"
    /\ UNCHANGED <<channel, offered, wire, written, reader, received, disturbances>>

(* The writer ends in the middle of a message. *)
WriterStops ==
    /\ writer = "writing"
    /\ \E n \in written..Len(wire) : written' = n
    /\ writer' = "closed"
    /\ UNCHANGED <<channel, offered, wire, reader, received, disturbances>>

OnThePipe == SubSeq(wire, 1, written)

Fail == reader' = "done" /\ UNCHANGED received

ReadHeader ==
    /\ reader = "header"
    /\ \/ /\ written >= HEADER_CELLS
          /\ IF /\ DecodeCommonHeader(SubSeq(wire, 1, HEADER_CELLS)) # None
                /\ PayloadLength(wire) <= MaximumPayload
             THEN reader' = "payload" /\ UNCHANGED received
             ELSE Fail
       \/ written < HEADER_CELLS /\ writer = "closed" /\ Fail
    /\ UNCHANGED <<channel, offered, wire, written, writer, disturbances>>

ReadPayload ==
    /\ reader = "payload"
    /\ \/ /\ written >= HEADER_CELLS + PayloadLength(wire)
          /\ reader' = "end" /\ UNCHANGED received
       \/ written < HEADER_CELLS + PayloadLength(wire) /\ writer = "closed" /\ Fail
    /\ UNCHANGED <<channel, offered, wire, written, writer, disturbances>>

(* The one-byte read after the message, and the decoding of what was read. *)
ReadEnd ==
    LET length == HEADER_CELLS + PayloadLength(wire) IN
    /\ reader = "end"
    /\ \/ written > length /\ Fail
       \/ /\ written = length /\ writer = "closed"
          /\ received' = Decode(channel, SubSeq(wire, 1, length))
          /\ reader' = "done"
    /\ UNCHANGED <<channel, offered, wire, written, writer, disturbances>>

Done == writer = "closed" /\ reader = "done" /\ UNCHANGED vars

Next ==
    \/ WriteMessage \/ Disturb \/ WriteSome \/ CloseWriter \/ WriterStops
    \/ ReadHeader \/ ReadPayload \/ ReadEnd
    \/ Done

Spec ==
    /\ Init /\ [][Next]_vars
    /\ WF_vars(WriteMessage) /\ WF_vars(WriteSome) /\ WF_vars(CloseWriter)
    /\ WF_vars(ReadHeader) /\ WF_vars(ReadPayload) /\ WF_vars(ReadEnd)

-----------------------------------------------------------------------------
(* A message that is written whole and unchanged is read back as exactly the      *)
(* prompt or decision it was made from, whatever the kind and size of the prompt. *)
ArrivesExactly ==
    reader = "done" /\ disturbances = 0 /\ wire # <<>> /\ written = Len(wire)
        => received = offered

(* There is one message for each prompt and decision: what the reader accepts     *)
(* encodes to the cells that were on the pipe, reserved cells, absent digests and *)
(* the end of the message included.                                               *)
OneEncoding ==
    received # None => OnThePipe = Encode(channel, received)

(* The key a prompt shows as the one that will sign is the one its subject says   *)
(* signs: the previous key of a transition, the next key for the next-key role of *)
(* a recovery, and neither online key for a recovery authority.                   *)
ShownKeySigns ==
    channel = "prompt" /\ received # None =>
        LET s == received.subject IN
        /\ s.type = "transition" => received.key = s.previousKey /\ received.key # s.nextKey
        /\ s.type = "recovery" =>
               IF s.role = NEXT_SIGNING_KEY
               THEN received.key = s.nextKey
               ELSE received.key \notin {s.nextKey, s.previousKey}

=============================================================================
