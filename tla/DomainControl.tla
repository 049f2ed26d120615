---------------------------- MODULE DomainControl ----------------------------
(***************************************************************************)
(* Proofs of control over a domain name: domain.rs of a-quo-core and the   *)
(* crate a-quo-domain.  A holder states that a key controls a name for a   *)
(* while, reviews and signs the statement, and publishes in the DNS the    *)
(* commitment the review showed.  A verifier checks the proof and asks the *)
(* DNS once, while the holder and others change the zone.                  *)
(*                                                                         *)
(* A name text is [name, canonical]: the same name can be written in many  *)
(* ways, one of which is the canonical one.  A commitment is the payload   *)
(* it is computed from.                                                    *)
(***************************************************************************)
EXTENDS SignedProofs

CONSTANTS
    GlobalNames, SpecialNames,       \* names a proof can and cannot be about
    Keys,                            \* keys of the holders
    DOMAIN_MAX_VALIDITY_SECONDS,     \* 30 days
    DOMAIN_CLOCK_SKEW_SECONDS,       \* 300
    DNS_LOOKUP_DEADLINE_SECONDS,     \* 12
    MAX_ANSWER_RECORDS,              \* 64
    MaxTime, MaxProofs, MaxRecords   \* bounds

DOMAIN_CONTROL_NAMESPACE == "a-quo-domain-control-v1"

VARIABLES
    clock,
    reviewed,   \* what the holders reviewed: [statement, txt, at]
    proofs,     \* proofs in circulation
    zone,       \* records a resolver would return: [owner, value, dnssec, big]
    lookup,     \* the verification under way: [portable, checkedAt], or None
    report      \* the last answer of verify_domain_control_live, or None

vars == <<clock, reviewed, proofs, zone, lookup, report>>

-----------------------------------------------------------------------------
(* Statements *)

MayCanonicalize(text) == text.name \in GlobalNames
CanonicalizeDomain(text) == [name |-> text.name, canonical |-> TRUE]

ValidateValidity(issuedAt, expiresAt) ==
    /\ issuedAt >= 0 /\ expiresAt >= 0
    /\ expiresAt - issuedAt \in 1 .. DOMAIN_MAX_VALIDITY_SECONDS

NewDomainControlStatement(text, issuedAt, expiresAt, keyText) ==
    [domain |-> CanonicalizeDomain(text), issuedAt |-> issuedAt,
     expiresAt |-> expiresAt, key |-> PublicKeyFingerprint(keyText)]

ValidateDomainStatement(st) ==
    /\ MayCanonicalize(st.domain)
    /\ st.domain = CanonicalizeDomain(st.domain)
    /\ ValidateValidity(st.issuedAt, st.expiresAt)

ValidateCurrentTime(st, now) ==
    /\ now + DOMAIN_CLOCK_SKEW_SECONDS >= st.issuedAt
    /\ now - DOMAIN_CLOCK_SKEW_SECONDS <= st.expiresAt

DnsTxtCommitment(payload) == [commits |-> payload]

\* review_domain_control_statement
Reviewable(st, now, keyText) ==
    /\ ValidateDomainStatement(st)
    /\ now >= 0
    /\ ValidateCurrentTime(st, now)
    /\ PublicKeyFingerprint(keyText) = st.key

\* review_domain_control_statement_bytes accepts the canonical bytes only
ReviewDomainControlStatementBytes(payload, now, keyText) ==
    /\ Reviewable(payload.statement, now, keyText)
    /\ payload.canonical

ReviewedTxt(st) == DnsTxtCommitment(CanonicalPayload(st))

-----------------------------------------------------------------------------
(* Proofs *)

CreateDomainControlProofForStatement(st, signer) ==
    [payload   |-> CanonicalPayload(st),
     value     |-> SshsigSign(CanonicalPayload(st), signer.privateKey,
                              DOMAIN_CONTROL_NAMESPACE, 0),
     publicKey |-> NormalizePublicKey(signer.publicKey)]

MayCreateDomainControlProof(st, signer) ==
    /\ ValidateDomainStatement(st)
    /\ PublicKeyFingerprint(signer.publicKey) = st.key
    /\ SignOneSucceeds(CanonicalPayload(st), signer, DOMAIN_CONTROL_NAMESPACE)

VerifyDomainControlProof(proof, now) ==
    /\ now >= 0
    /\ Reviewable(proof.payload.statement, now, proof.publicKey)
    /\ SshsigVerify(proof.payload, proof.value, NormalizePublicKey(proof.publicKey),
                    DOMAIN_CONTROL_NAMESPACE)

\* The record the DNS has to have; the commitment is to the bytes of the proof.
Portable(proof) ==
    [owner |-> proof.payload.statement.domain.name,
     value |-> DnsTxtCommitment(proof.payload),
     proof |-> proof]

-----------------------------------------------------------------------------
(* The DNS answer *)

\* evaluate_records: only records of the exact name count, and they all have
\* the same standing.
SlipAnyOwner(answers, portable) == answers
AtName(answers, portable) == {r \in answers : r.owner = portable.owner}

Matching(answers, portable) ==
    {r \in AtName(answers, portable) : r.value = portable.value}

TooLarge(answers) ==
    \/ Cardinality(answers) > MAX_ANSWER_RECORDS
    \/ \E r \in answers : r.big

Consistent(answers, portable) ==
    \A a, b \in AtName(answers, portable) : a.dnssec = b.dnssec

Standing(answers, portable, negative) ==
    IF AtName(answers, portable) # {}
    THEN (CHOOSE r \in AtName(answers, portable) : TRUE).dnssec
    ELSE IF negative # None THEN negative ELSE "Indeterminate"

BuildReport(portable, checkedAt, publication, dnssec) ==
    [result        |-> "Report",
     portable      |-> portable,
     checkedAt     |-> checkedAt,
     publication   |-> publication,
     dnssec        |-> dnssec,
     domainControl |->
        CASE publication = "Matched" /\ dnssec = "Secure"   -> "VerifiedDnssec"
          [] publication = "Matched" /\ dnssec = "Insecure" -> "ObservedUnsigned"
          [] OTHER -> "NotEstablished"]

EvaluateRecords(portable, checkedAt, answers, negative) ==
    IF TooLarge(answers) THEN [result |-> "ResponseTooLarge"]
    ELSE IF ~ Consistent(answers, portable) THEN [result |-> "InconsistentDnssec"]
    ELSE BuildReport(portable, checkedAt,
            IF Matching(answers, portable) # {} THEN "Matched" ELSE "Missing",
            Standing(answers, portable, negative))

\* no_records_dnssec_status: the worst standing among the authority records
\* decides, and a secure denial needs a secure record that denies.
NoRecordsDnssecStatus(authorities) ==
    LET standings == {a.dnssec : a \in authorities} IN
    CASE "Bogus" \in standings         -> "Bogus"
      [] "Indeterminate" \in standings -> "Indeterminate"
      [] "Insecure" \in standings      -> "Insecure"
      [] \E a \in authorities : a.dnssec = "Secure" /\ a.denies -> "Secure"
      [] OTHER -> "Indeterminate"

-----------------------------------------------------------------------------
(* Steps *)

Init ==
    /\ clock = 0
    /\ reviewed = {} /\ proofs = {} /\ zone = {}
    /\ lookup = None /\ report = None

\* A lookup is over when its deadline is.
Tick ==
    /\ clock < MaxTime
    /\ lookup # None => clock < lookup.checkedAt + DNS_LOOKUP_DEADLINE_SECONDS
    /\ clock' = clock + 1
    /\ UNCHANGED <<reviewed, proofs, zone, lookup, report>>

\* A holder states, reviews and signs; the review is what is published later.
MakeProof(text, lifetime, key) ==
    LET st == NewDomainControlStatement(text, clock, clock + lifetime,
                                        [key |-> key, comment |-> TRUE])
        signer == [privateKey |-> key, publicKey |-> [key |-> key, comment |-> FALSE]]
    IN
    /\ Cardinality(proofs) < MaxProofs
    /\ MayCanonicalize(text)
    /\ ValidateValidity(clock, clock + lifetime)
    /\ ReviewDomainControlStatementBytes(CanonicalPayload(st), clock, signer.publicKey)
    /\ MayCreateDomainControlProof(st, signer)
    /\ reviewed' = reviewed \cup {[statement |-> st, txt |-> ReviewedTxt(st), at |-> clock]}
    /\ proofs' = proofs \cup {CreateDomainControlProofForStatement(st, signer)}
    /\ UNCHANGED <<clock, zone, lookup, report>>

\* Whoever runs a zone puts a record in it; at another name it is what an
\* alias of the claimed name leads to.
Publish(review, name, dnssec, big) ==
    /\ Cardinality(zone) < MaxRecords
    /\ zone' = zone \cup {[owner |-> name, value |-> review.txt, dnssec |-> dnssec,
                           big |-> big]}
    /\ UNCHANGED <<clock, reviewed, proofs, lookup, report>>

Withdraw(r) ==
    /\ zone' = zone \ {r}
    /\ UNCHANGED <<clock, reviewed, proofs, lookup, report>>

\* verify_domain_control_live up to the lookup
StartVerification(proof) ==
    /\ lookup = None
    /\ IF VerifyDomainControlProof(proof, clock)
       THEN /\ lookup' = [portable |-> Portable(proof), checkedAt |-> clock]
            /\ UNCHANGED report
       ELSE /\ report' = [result |-> "Proof"]
            /\ UNCHANGED lookup
    /\ UNCHANGED <<clock, reviewed, proofs, zone>>

Answer(error, authorities) ==
    /\ lookup # None
    /\ report' =
          IF error # None THEN [result |-> error]
          ELSE IF zone # {}
               THEN EvaluateRecords(lookup.portable, lookup.checkedAt, zone, None)
               ELSE EvaluateRecords(lookup.portable, lookup.checkedAt, {},
                                    NoRecordsDnssecStatus(authorities))
    /\ lookup' = None
    /\ UNCHANGED <<clock, reviewed, proofs, zone>>

AuthoritySets ==
    {{}, {[dnssec |-> "Secure", denies |-> TRUE]}, {[dnssec |-> "Secure", denies |-> FALSE]},
     {[dnssec |-> "Secure", denies |-> TRUE], [dnssec |-> "Bogus", denies |-> FALSE]}}

Next ==
    \/ Tick
    \/ \E name \in GlobalNames \cup SpecialNames, c \in BOOLEAN,
          lifetime \in 1 .. DOMAIN_MAX_VALIDITY_SECONDS, key \in Keys :
             MakeProof([name |-> name, canonical |-> c], lifetime, key)
    \/ \E review \in reviewed, name \in GlobalNames, dnssec \in {"Secure", "Insecure"},
          big \in BOOLEAN : Publish(review, name, dnssec, big)
    \/ \E r \in zone : Withdraw(r)
    \/ \E proof \in proofs : StartVerification(proof)
    \/ \E error \in {None, "LookupTimedOut", "LookupFailed"}, authorities \in AuthoritySets :
          Answer(error, authorities)

Spec == Init /\ [][Next]_vars

-----------------------------------------------------------------------------
(* Properties *)

\* "verified" is said of a name only when the holder of the stated key signed
\* the statement, the commitment the holder reviewed for exactly that
\* statement is at exactly that name, nothing else at the name stands on
\* another footing, and the proof was in its window, give or take the skew,
\* when the verification began; the answer is never older than the deadline
\* (verify_domain_control_live, evaluate_records).
VerifiedMeansControl ==
    (report' # report /\ report' # None) =>
     (report'.result = "Report" =>
      LET st == report'.portable.proof.payload.statement
          there == {r \in zone : r.owner = st.domain.name}
      IN
      report'.domainControl # "NotEstablished" =>
         /\ \E review \in reviewed :
               /\ review.statement = st
               /\ \E r \in there : r.value = review.txt
         /\ \A r \in there :
               r.dnssec = IF report'.domainControl = "VerifiedDnssec"
                          THEN "Secure" ELSE "Insecure"
         /\ report'.checkedAt <= st.expiresAt + DOMAIN_CLOCK_SKEW_SECONDS
         /\ report'.checkedAt >= st.issuedAt - DOMAIN_CLOCK_SKEW_SECONDS
         /\ clock <= report'.checkedAt + DNS_LOOKUP_DEADLINE_SECONDS)

=============================================================================
