--------------------------- MODULE RecoveryCeremony ---------------------------
(***************************************************************************)
(* The distributed recovery ceremony of recovery_ceremony.rs.  A           *)
(* coordinator publishes a request: the whole history of the persona, the  *)
(* pinned digests, and one short-lived recovery transition nobody has      *)
(* signed yet.  Every participant, each on a machine of its own, verifies  *)
(* the request, and some time later signs it in the role its key has.  The *)
(* coordinator assembles a recovery proof from the responses it got.       *)
(*                                                                         *)
(* Responses are files people send around: any of them may get lost, come  *)
(* late, twice, or for another request, so assembly is tried with any      *)
(* sequence of the responses made so far.  A participant may sign again    *)
(* what it signed before.  The clocks may be set back.                     *)
(***************************************************************************)
EXTENDS RecoveryProofs

CONSTANTS
    Requests,          \* the digests of the requests in circulation
    RequestOf,         \* the request with a digest
    Participants,      \* the keys of the participants
    Randomized,        \* those whose signatures differ from one time to the next
    Coordinator,       \* the machine of the coordinator; not a key
    MAX_RECOVERY_CEREMONY_SIGNATURE_VERIFICATIONS,
    MaxTime,           \* bound on the clock
    MaxResponses,      \* bound on the responses in circulation
    MaxPending         \* bound on the participants between verifying and signing

VARIABLES
    clock,       \* seconds; a machine reads it when a command starts
    verified,    \* per machine: the verified request, or None
    responses,   \* responses made so far
    assembled,   \* what the coordinator assembled, or None
    told         \* who signed which request, and when: [key, request, at]

vars == <<clock, verified, responses, assembled, told>>

Machines == Participants \cup {Coordinator}

-----------------------------------------------------------------------------
(* Requests *)

PolicyWork(proof) == Len(proof.previous) + Len(proof.current)

TransitionWork(proof) ==
    Len(proof.signatures) + IF proof.schema = "recovery-transition" THEN 1 ELSE 0

\* require_request_signature_work_bound; the root has one signature
SignatureWork(r) ==
    1 + MapThenSumSet(LAMBDA i : PolicyWork(r.policies[i]), DOMAIN r.policies)
      + MapThenSumSet(LAMBDA i : TransitionWork(r.transitions[i]), DOMAIN r.transitions)

ValidateHead(head) ==
    /\ head.sequence \in 0 .. MAX_CONTINUITY_TRANSITIONS
    /\ (head.sequence = 0) <=> (head.digest = None)

ValidateRequestStructure(r) ==
    /\ SignatureWork(r) <= MAX_RECOVERY_CEREMONY_SIGNATURE_VERIFICATIONS
    /\ Len(r.policies) \in 1 .. MAX_RECOVERY_POLICY_VERSIONS
    /\ Len(r.transitions) <= MAX_CONTINUITY_TRANSITIONS
    /\ \A i \in DOMAIN r.policies : PreflightRecoveryPolicyProof(r.policies[i])
    /\ \A i \in DOMAIN r.transitions : PreflightTransitionProof(r.transitions[i])
    /\ ValidateHead(r.expectedHead)
    /\ r.statement.ceremony # None
    /\ ValidateRecoveryTransitionStatement(r.statement)
    /\ PublicKeyFingerprint(r.nextPublicKey) = r.statement.nextKey

\* The bytes every binding signature is over; d is the digest of the request,
\* which is also what a response names.
RequestBytes(d) == [request |-> d]

EnsureCeremonyCurrent(st, t) == st.issuedAt <= t /\ t < st.expiresAt

SelectsPolicy(r, v) == RecoveryPolicyForTransition(Statements(r.policies), r.statement, v)

SelectedPolicy(r) ==
    r.policies[CHOOSE v \in DOMAIN r.policies : SelectsPolicy(r, v)].payload.statement

ValidateRecoveryCeremonyCandidate(r) ==
    LET root == r.rootProof.payload.statement IN
    /\ r.statement.ceremony # None
    /\ ValidateRecoveryTransitionStatement(r.statement)
    /\ PublicKeyFingerprint(r.nextPublicKey) = r.statement.nextKey
    /\ RecoveryAwareTransitionAtHead(root, Statements(r.transitions),
                                     Statements(r.policies), r.statement)
    /\ \E v \in DOMAIN r.policies : SelectsPolicy(r, v)
    /\ ValidateRecoveryTransitionBinding(root, SelectedPolicy(r), r.statement)

\* All of the verification that does not depend on the time
Verifiable ==
    {d \in Requests :
        LET r == RequestOf[d] IN
        /\ ValidateRequestStructure(r)
        /\ VerifyHistoryAtCheckpoint(r.rootProof, r.transitions, r.policies,
              r.expectedRoot, r.expectedPolicy, r.expectedHead)
        /\ ValidateRecoveryCeremonyCandidate(r)}

VerifyRecoveryCeremonyRequest(d, t) ==
    /\ EnsureCeremonyCurrent(RequestOf[d].statement, t)
    /\ d \in Verifiable

-----------------------------------------------------------------------------
(* Participants and responses.  v is a verified request: its digest, the    *)
(* policy that authorizes it and the time it was verified at.               *)

StatementOf(v) == RequestOf[v.request].statement

EnsureNotBeforePriorVerification(v, t) == t >= v.at

HasRole(v, key) ==
    key = StatementOf(v).nextKey \/ key \in v.policy.authorities

ParticipantRole(v, key) ==
    IF key = StatementOf(v).nextKey THEN "NextKey" ELSE "RecoveryAuthority"

RoleNamespace(role) ==
    IF role = "NextKey" THEN Namespaces.Next ELSE Namespaces.Authority

StatementPayload(v) == CanonicalPayload(StatementOf(v))

ReviewRecoveryCeremonyParticipant(v, key, t) ==
    /\ EnsureNotBeforePriorVerification(v, t)
    /\ EnsureCeremonyCurrent(StatementOf(v), t)
    /\ HasRole(v, key)

\* Both signatures, over the transition and over the exact request
SlipNoRequestBinding(v, sig, binding) ==
    LET role == ParticipantRole(v, sig.publicKey.key) IN
    /\ ValidateRecoverySignature(sig, RoleNamespace(role))
    /\ ValidateRecoverySignature(binding, Namespaces.Ceremony)
    /\ binding.publicKey.key = sig.publicKey.key
    /\ SshsigVerify(StatementPayload(v), sig.value,
                    NormalizePublicKey(sig.publicKey), RoleNamespace(role))
SignaturesBind(v, sig, binding) ==
    LET role == ParticipantRole(v, sig.publicKey.key) IN
    /\ ValidateRecoverySignature(sig, RoleNamespace(role))
    /\ ValidateRecoverySignature(binding, Namespaces.Ceremony)
    /\ binding.publicKey.key = sig.publicKey.key
    /\ SshsigVerify(StatementPayload(v), sig.value,
                    NormalizePublicKey(sig.publicKey), RoleNamespace(role))
    /\ SshsigVerify(RequestBytes(v.request), binding.value,
                    NormalizePublicKey(binding.publicKey), Namespaces.Ceremony)

MayRespond(v, sig, binding, t) ==
    /\ EnsureNotBeforePriorVerification(v, t)
    /\ EnsureCeremonyCurrent(StatementOf(v), t)
    /\ HasRole(v, PublicKeyFingerprint(sig.publicKey))
    /\ SignaturesBind(v, sig, binding)

NewRecoveryCeremonyResponse(v, sig, binding) ==
    [request     |-> v.request,
     participant |-> PublicKeyFingerprint(sig.publicKey),
     role        |-> ParticipantRole(v, PublicKeyFingerprint(sig.publicKey)),
     binding     |-> binding,
     signature   |-> sig]

VerifyRecoveryCeremonyResponse(v, resp, t) ==
    /\ EnsureNotBeforePriorVerification(v, t)
    /\ EnsureCeremonyCurrent(StatementOf(v), t)
    /\ resp.request = v.request
    /\ resp.participant = PublicKeyFingerprint(resp.signature.publicKey)
    /\ HasRole(v, resp.participant)
    /\ resp.role = ParticipantRole(v, resp.participant)
    /\ SignaturesBind(v, resp.signature, resp.binding)

-----------------------------------------------------------------------------
(* Assembly *)

NoConflict(inbox) ==
    \A j \in DOMAIN inbox : \A i \in 1 .. j - 1 :
        inbox[i].participant = inbox[j].participant => inbox[i] = inbox[j]

InRoleOf(inbox, role) ==
    {inbox[i].participant : i \in {j \in DOMAIN inbox : inbox[j].role = role}}

\* the signature kept for a key: BTreeMap, in the order of the fingerprints
SignatureOf(inbox, key) ==
    inbox[CHOOSE i \in DOMAIN inbox : inbox[i].participant = key].signature

AssembledProof(v, inbox) ==
    [schema        |-> "recovery-transition",
     payload       |-> StatementPayload(v),
     signatures    |-> [i \in 1 .. Cardinality(InRoleOf(inbox, "RecoveryAuthority")) |->
                          SignatureOf(inbox, SetToSortSeq(
                             InRoleOf(inbox, "RecoveryAuthority"), <)[i])],
     nextSignature |-> SignatureOf(inbox, StatementOf(v).nextKey)]

ThresholdReached(v, inbox) ==
    Cardinality(InRoleOf(inbox, "RecoveryAuthority")) >= v.policy.threshold

\* assemble_recovery_ceremony_proof
AssembleSucceeds(v, inbox, t) ==
    /\ EnsureNotBeforePriorVerification(v, t)
    /\ EnsureCeremonyCurrent(StatementOf(v), t)
    /\ Len(inbox) \in 1 .. MAX_RECOVERY_AUTHORITIES + 1
    /\ NoConflict(inbox)
    /\ InRoleOf(inbox, "NextKey") # {}
    /\ ThresholdReached(v, inbox)
    /\ \A i \in DOMAIN inbox : VerifyRecoveryCeremonyResponse(v, inbox[i], t)
    /\ VerifyRecoveryTransitionProof(RequestOf[v.request].rootProof.payload.statement,
          v.policy, AssembledProof(v, inbox))
    /\ RecoveryExtension(RequestOf[v.request].rootProof.payload.statement,
          Statements(RequestOf[v.request].transitions), Statements(RequestOf[v.request].policies),
          StatementOf(v))

-----------------------------------------------------------------------------
(* Steps *)

CeremonyInit ==
    /\ clock = 1
    /\ verified = [m \in Machines |-> None]
    /\ responses = {}
    /\ assembled = None
    /\ told = {}

Tick ==
    /\ clock < MaxTime
    /\ clock' = clock + 1
    /\ UNCHANGED <<verified, responses, assembled, told>>

SetClockBack ==
    /\ clock > 1
    /\ clock' = clock - 1
    /\ UNCHANGED <<verified, responses, assembled, told>>

VerifyRequest(m, d) ==
    /\ m # Coordinator =>
          Cardinality({p \in Participants \ {m} : verified[p] # None}) < MaxPending
    /\ VerifyRecoveryCeremonyRequest(d, clock)
    /\ verified' = [verified EXCEPT ![m] = [request |-> d, policy |-> SelectedPolicy(RequestOf[d]),
                                           at |-> clock]]
    /\ UNCHANGED <<clock, responses, assembled, told>>

\* sign_recovery_ceremony_request, and the signing command is over
Sign(key, draw) ==
    LET v == verified[key]
        signer == [privateKey |-> key, publicKey |-> [key |-> key, comment |-> TRUE]]
        sig == SignOne(StatementPayload(v), signer,
                       RoleNamespace(ParticipantRole(v, key)), draw)
        binding == SignOne(RequestBytes(v.request), signer, Namespaces.Ceremony, draw)
    IN
    /\ v # None
    /\ Cardinality(responses) < MaxResponses
    /\ ReviewRecoveryCeremonyParticipant(v, key, clock)
    /\ MayRespond(v, sig, binding, clock)
    /\ responses' = responses \cup {NewRecoveryCeremonyResponse(v, sig, binding)}
    /\ told' = told \cup {[key |-> key, request |-> v.request, at |-> clock]}
    /\ verified' = [verified EXCEPT ![key] = None]
    /\ UNCHANGED <<clock, assembled>>

\* new_recovery_ceremony_response with signatures made elsewhere: the
\* coordinator wraps two signatures it has into a response of its own request.
Wrap(sig, binding) ==
    LET v == verified[Coordinator] IN
    /\ v # None
    /\ Cardinality(responses) < MaxResponses
    /\ MayRespond(v, sig, binding, clock)
    /\ responses' = responses \cup {NewRecoveryCeremonyResponse(v, sig, binding)}
    /\ UNCHANGED <<clock, verified, assembled, told>>

Assemble(inbox) ==
    LET v == verified[Coordinator] IN
    /\ v # None
    /\ AssembleSucceeds(v, inbox, clock)
    /\ assembled' = [proof |-> AssembledProof(v, inbox), request |-> v.request,
                     at |-> clock, inbox |-> Range(inbox)]
    /\ UNCHANGED <<clock, verified, responses, told>>

\* All but one of the responses in any order, one more than once maybe, or all.
Inboxes == BoundedSeq(responses, MaxResponses - 1) \cup {SetToSeq(responses)}

Step ==
    \/ Tick \/ SetClockBack
    \/ \E m \in Machines, d \in Requests : VerifyRequest(m, d)
    \/ \E key \in Participants :
          \E draw \in IF key \in Randomized THEN {1, 2} ELSE {0} : Sign(key, draw)
    \/ \E a, b \in responses : Wrap(a.signature, b.binding)
    \/ /\ verified[Coordinator] # None
       /\ \E inbox \in Inboxes : Assemble(inbox)

\* The ceremony ends with its proof.
CeremonyNext ==
    /\ assembled = None
    /\ Step

CeremonySpec == CeremonyInit /\ [][CeremonyNext]_vars

-----------------------------------------------------------------------------
(* Properties *)

\* Every signature of an assembled proof was made by a participant who had
\* verified exactly the request it was assembled for, and who signed while the
\* ceremony was open, as it was when the coordinator assembled: no response to
\* another request, not even to one with the same transition in it, and no late
\* or early one counts (verify_recovery_ceremony_response,
\* ensure_ceremony_current).
AssembledByConsent ==
    assembled # None =>
        LET st == RequestOf[assembled.request].statement
            Open(e) == st.issuedAt <= e.at /\ e.at < st.expiresAt
            signers == SignatureKeys(assembled.proof.signatures)
        IN
        /\ Open(assembled)
        /\ \A key \in signers \cup {st.nextKey} :
              \E e \in told : e.key = key /\ e.request = assembled.request /\ Open(e)

\* The history with the assembled proof at its end verifies as a whole, from
\* the root, under the policies of the request: what the ceremony checks step
\* by step against the head it was given is what a stranger checks from the
\* start (validate_recovery_aware_transition_at_head against
\* verify_persona_continuity_chain_with_recovery), and the report on it names
\* the recovered key as the current one.
AssembledIsAdoptable ==
    assembled # None =>
        LET r == RequestOf[assembled.request] IN
        /\ VerifyHistory(r.rootProof, Append(r.transitions, assembled.proof), r.policies,
                         r.expectedRoot, r.expectedPolicy)
        /\ LET report == RecoveryAwareContinuityChainReport(r.rootProof.payload.statement,
                            Statements(Append(r.transitions, assembled.proof)),
                            Statements(r.policies), assembled.at)
           IN  /\ report.currentKey = r.statement.nextKey
               /\ report.recoveries = 1

\* Two different responses of one key never end up in one assembly, not even
\* when the key only signed the same request twice
\* (assemble_recovery_ceremony_proof, "fail closed").
ConflictsFailClosed ==
    assembled # None =>
        \A a, b \in assembled.inbox : a.participant = b.participant => a = b

\* While the ceremony is open, the responses of a threshold of authorities and
\* of the next key to the request the coordinator verified are enough: some
\* choice among them assembles, however often and for whatever else their
\* owners also signed.
ResponsesSuffice ==
    LET v == verified[Coordinator]
        mine == {resp \in responses : resp.request = v.request}
        keys == {resp.participant : resp \in mine}
    IN
    (/\ v # None
     /\ v.at <= clock /\ clock < StatementOf(v).expiresAt
     /\ StatementOf(v).nextKey \in keys
     /\ Cardinality(keys \cap v.policy.authorities)
           >= v.policy.threshold)
    => \E chosen \in SUBSET mine : AssembleSucceeds(v, SetToSeq(chosen), clock)
=============================================================================
