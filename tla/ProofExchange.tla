---------------------------- MODULE ProofExchange ----------------------------
(***************************************************************************)
(* Holders of keys make proofs and a relying party is shown proofs.  What  *)
(* reaches the relying party is put together from any signatures the       *)
(* holders ever made, under any key text and in any order.                 *)
(*                                                                         *)
(* One behaviour is about one statement, the case: a root, a routine       *)
(* transition, an enrollment, an update, a recovery or the end of the      *)
(* persona.  The holders also sign a sibling of it: the same statement     *)
(* issued a second later.                                                  *)
(***************************************************************************)
EXTENDS RecoveryProofs

CONSTANTS
    Cases,            \* what a behaviour may be about
    Holders,          \* keys
    MaxSignatures,    \* bounds, per case, the signatures made one by one
    CONTINUITY_ROOT_CLOCK_SKEW_SECONDS,       \* 300 in continuity.rs
    MaxTime           \* bound on the clock

VARIABLES
    case,        \* what this behaviour is about
    clock,
    reviewed,    \* the time the consent surface reviewed the statement at, or None
    pool,        \* every signature made so far
    created,     \* the proof a create_* function returned, or None
    accepted     \* the proof the relying party accepted, or None

vars == <<case, clock, reviewed, pool, created, accepted>>

-----------------------------------------------------------------------------
(* The statements *)

Text(key) == [key |-> key, comment |-> FALSE]

root == [key |-> 1, issuedAt |-> 1]

\* The first policy needs all three of its authorities, the second two.
policy1 == NewInitialRecoveryPolicyStatement(root, <<Text(11), Text(12), Text(13)>>, 3,
              {"KeyRecovery", "TerminalRevocation"}, [sequence |-> 0, digest |-> None], 1, 9)
policy2 == NewRecoveryPolicyUpdateStatement(policy1, <<Text(11), Text(12), Text(13)>>, 2,
              {"KeyRecovery", "TerminalRevocation"}, [sequence |-> 0, digest |-> None], 1, 9)

StatementFor(c, issuedAt) ==
    CASE c = "Root" -> [root EXCEPT !.issuedAt = issuedAt]
      [] c = "Routine" ->
            [kind |-> "Routine", root |-> root, sequence |-> 1, previous |-> None,
             previousKey |-> 1, nextKey |-> 2, issuedAt |-> issuedAt, expiresAt |-> None,
             policy |-> None, reason |-> "Routine", ceremony |-> None]
      [] c = "Enrollment" -> [policy1 EXCEPT !.issuedAt = issuedAt]
      [] c = "Update" -> [policy2 EXCEPT !.issuedAt = issuedAt]
      [] c = "Recovery" ->
            NewRecoveryTransitionStatement(root, 1, None, 1, Text(2), policy2,
                                           issuedAt, None, None)
      [] c = "Terminal" ->
            NewTerminalPersonaRevocationStatement(root, 1, None, 1, policy2, issuedAt)

Subject == StatementFor(case, 1)
Siblings ==
    {StatementFor(case, 1)} \cup IF case = "Update" THEN {} ELSE {StatementFor(case, 2)}

Purposes(c) ==
    CASE c = "Root" -> {Namespaces.Root, Namespaces.Transition}
      [] c = "Routine" -> {Namespaces.Transition, Namespaces.Root}
      [] c = "Enrollment" -> {Namespaces.Enrollment, Namespaces.UpdateCurrent}
      [] c = "Update" -> {Namespaces.UpdatePrevious, Namespaces.UpdateCurrent}
      [] c = "Recovery" -> {Namespaces.Authority, Namespaces.Next}
      [] c = "Terminal" -> {Namespaces.Terminal, Namespaces.Authority}

Concerned(c) ==
    CASE c = "Root" -> {1, 2}
      [] c = "Routine" -> {1, 2}
      [] c \in {"Enrollment", "Update", "Terminal"} -> {11, 12, 13}
      [] c = "Recovery" -> {2, 11, 12}

-----------------------------------------------------------------------------
(* Proofs *)

\* What the relying party checks: the first policy is its starting point, and
\* the second one is that of the recovery and of the end.
Verifies(c, proof) ==
    CASE c = "Root" -> VerifyPersonaRootProof(proof)
      [] c = "Routine" -> VerifyPersonaTransitionProof(proof)
      [] c = "Enrollment" -> VerifyRecoveryPolicyProof(root, None, proof)
      [] c = "Update" -> VerifyRecoveryPolicyProof(root, policy1, proof)
      [] c = "Recovery" -> VerifyRecoveryTransitionProof(root, policy2, proof)
      [] c = "Terminal" -> VerifyTerminalPersonaRevocationProof(root, policy2, proof)

\* The envelopes a signature can be shown in: with its own key, with a comment
\* on it, or with the key of somebody else
Shown(value, namespace) ==
    {[namespace |-> namespace, value |-> value, publicKey |-> text] :
        text \in {[key |-> value.signer, comment |-> c] : c \in BOOLEAN}
                 \cup IF case = "Update" THEN {} ELSE {Text(k) : k \in Concerned(case)}}

ShownAs(namespace) == UNION {Shown(value, namespace) : value \in pool}

WithRole(sig, role) == [role |-> role, namespace |-> sig.namespace,
                        value |-> sig.value, publicKey |-> sig.publicKey]

\* two of them, the same one twice, or three; every check of a list of
\* signatures starts with this preflight
Lists(namespace) ==
    LET sigs == ShownAs(namespace) IN
    {list \in {<<a, b>> : a, b \in sigs} \cup {SetToSeq(s) : s \in kSubset(3, sigs)} :
        PreflightUnboundSignatureSet(list, namespace)}

Composed(c) ==
    LET payload == CanonicalPayload(Subject) IN
    CASE c = "Root" ->
           {[schema |-> "persona-root", payload |-> payload,
             signature |-> WithRole(sig, "Root")] : sig \in ShownAs(Namespaces.Root)}
      [] c = "Routine" ->
           {[schema |-> "persona-transition", payload |-> payload,
             signatures |-> <<WithRole(a, "Next"), WithRole(b, "Previous")>>] :
               a, b \in ShownAs(Namespaces.Transition)}
      [] c = "Enrollment" ->
           {[schema |-> "recovery-policy", payload |-> payload, kind |-> "Enrollment",
             previous |-> << >>, current |-> sigs] :
               sigs \in Lists(Namespaces.Enrollment)}
      [] c = "Update" ->
           {[schema |-> "recovery-policy", payload |-> payload, kind |-> "Update",
             previous |-> before, current |-> sigs] :
               before \in Lists(Namespaces.UpdatePrevious),
               sigs \in Lists(Namespaces.UpdateCurrent)}
      [] c = "Recovery" ->
           {[schema |-> "recovery-transition", payload |-> payload,
             signatures |-> sigs, nextSignature |-> next] :
               sigs \in Lists(Namespaces.Authority),
               next \in ShownAs(Namespaces.Next)}
      [] c = "Terminal" ->
           {[schema |-> "terminal-revocation", payload |-> payload, signatures |-> sigs] :
               sigs \in Lists(Namespaces.Terminal)}

-----------------------------------------------------------------------------
(* Review.  The surface that asks for consent to a root or a routine        *)
(* transition refuses one that is not fresh: review_persona_root_statement. *)

Fresh(st, now) ==
    /\ st.issuedAt >= now - CONTINUITY_ROOT_CLOCK_SKEW_SECONDS
    /\ st.issuedAt <= now + CONTINUITY_ROOT_CLOCK_SKEW_SECONDS

ReviewPersonaRootStatement(st, now, text) ==
    /\ Fresh(st, now)
    /\ PublicKeyFingerprint(text) = st.key

ReviewPersonaTransitionStatement(st, now, expectedSequence, expectedPrevious, previousText, nextText) ==
    /\ ValidateStatement(st)
    /\ Fresh(st, now)
    /\ st.root = Digest(root)
    /\ st.sequence = expectedSequence
    /\ st.previous = expectedPrevious
    /\ PublicKeyFingerprint(previousText) = st.previousKey
    /\ PublicKeyFingerprint(nextText) = st.nextKey

-----------------------------------------------------------------------------
(* Steps *)

Init ==
    /\ case \in Cases
    /\ clock = 0
    /\ reviewed = None
    /\ pool = {}
    /\ created = None
    /\ accepted = None

Tick ==
    /\ case \in {"Root", "Routine"} /\ clock < MaxTime
    /\ clock' = clock + 1
    /\ UNCHANGED <<case, reviewed, pool, created, accepted>>

Review ==
    /\ case \in {"Root", "Routine"} /\ reviewed = None
    /\ IF case = "Root" THEN ReviewPersonaRootStatement(Subject, clock, Text(1))
       ELSE ReviewPersonaTransitionStatement(Subject, clock, 1, None, Text(1), Text(2))
    /\ reviewed' = clock
    /\ UNCHANGED <<case, clock, pool, created, accepted>>

\* One holder signs one statement for one purpose.
Sign(key, st, namespace) ==
    /\ created = None /\ accepted = None
    /\ clock = 0
    /\ Cardinality(pool) < MaxSignatures[case]
    /\ pool' = pool \cup {SshsigSign(CanonicalPayload(st), key, namespace, 0)}
    /\ UNCHANGED <<case, clock, reviewed, created, accepted>>

\* Holders make a whole proof.  A signer is a private key and the public key
\* it is believed to have.
Signer(private, public) == [privateKey |-> private, publicKey |-> Text(public)]

Pairs(a, b, c) == <<Signer(a, 11), Signer(b, 12), Signer(c, 13)>>

Create ==
    /\ created = None /\ accepted = None /\ pool = {}
    /\ \E a, b, c \in Holders :
         \/ /\ case = "Root" /\ reviewed # None
            /\ MayCreatePersonaRootProof(Subject, Signer(a, b))
            /\ created' = CreatePersonaRootProof(Subject, Signer(a, b))
         \/ /\ case = "Routine" /\ reviewed # None
            /\ MayCreateRoutineTransitionProof(Subject, Signer(a, 1), Signer(b, 2))
            /\ created' = CreateRoutineTransitionProof(Subject, Signer(a, 1), Signer(b, 2))
         \/ /\ case = "Enrollment"
            /\ MayStateInitialPolicy(root, Subject)
            /\ MayCreateInitialRecoveryPolicyProof(Subject, Pairs(a, b, c))
            /\ created' = CreateInitialRecoveryPolicyProof(Subject, Pairs(a, b, c))
         \/ /\ case = "Update"
            /\ MayCreateRecoveryPolicyUpdateProof(Subject, policy1,
                  Reverse(Pairs(a, b, c)), Pairs(a, b, c))
            /\ created' = CreateRecoveryPolicyUpdateProof(Subject,
                             Reverse(Pairs(a, b, c)), Pairs(a, b, c))
         \/ /\ case = "Recovery"
            /\ MayStateRecoveryTransition(root, policy2, Subject)
            /\ MayCreateRecoveryTransitionProof(Subject, policy2,
                  <<Signer(a, 12), Signer(b, 11)>>, Signer(c, 2))
            /\ created' = CreateRecoveryTransitionProof(Subject,
                             <<Signer(a, 12), Signer(b, 11)>>, Signer(c, 2))
         \/ /\ case = "Terminal"
            /\ MayStateTerminalPersonaRevocation(root, policy2, Subject)
            /\ MayCreateTerminalPersonaRevocationProof(Subject, policy2,
                  <<Signer(a, 13), Signer(b, 11)>>)
            /\ created' = CreateTerminalPersonaRevocationProof(Subject,
                             <<Signer(a, 13), Signer(b, 11)>>)
    /\ UNCHANGED <<case, clock, reviewed, pool, accepted>>

Accept(proof) ==
    /\ Verifies(case, proof)
    /\ accepted' = proof
    /\ UNCHANGED <<case, clock, reviewed, pool, created>>

Next ==
    \/ Tick \/ Review \/ Create
    \/ \E key \in Concerned(case), st \in Siblings, namespace \in Purposes(case) :
          Sign(key, st, namespace)
    \/ /\ accepted = None /\ created = None /\ Cardinality(pool) = MaxSignatures[case]
       /\ \E proof \in Composed(case) : Accept(proof)

Spec == Init /\ [][Next]_vars

-----------------------------------------------------------------------------
(* Properties *)

\* who signed the subject for a purpose
SignedFor(namespace) ==
    {value.signer : value \in {v \in pool : v.namespace = namespace
                                         /\ v.over.statement = Subject}}

\* A proof is accepted only if the holders of the keys the statement names
\* made their signatures for exactly this statement and exactly this purpose:
\* all authorities for an enrollment, the threshold of the previous policy for
\* an update, the threshold and the new key for a recovery.  A signature for
\* another purpose, another statement, under another key or counted twice
\* never makes up for a missing one (verify_authority_signatures and the
\* verify_*_proof functions).
AcceptedByConsent ==
    accepted # None =>
        CASE case = "Root" -> root.key \in SignedFor(Namespaces.Root)
          [] case = "Routine" -> {1, 2} \subseteq SignedFor(Namespaces.Transition)
          [] case = "Enrollment" ->
                policy1.authorities \subseteq SignedFor(Namespaces.Enrollment)
          [] case = "Update" ->
                /\ Cardinality(policy1.authorities \cap SignedFor(Namespaces.UpdatePrevious))
                      >= policy1.threshold
                /\ Cardinality(policy2.authorities \cap SignedFor(Namespaces.UpdateCurrent))
                      >= policy2.threshold
          [] case = "Recovery" ->
                /\ Cardinality(policy2.authorities \cap SignedFor(Namespaces.Authority))
                      >= policy2.threshold
                /\ 2 \in SignedFor(Namespaces.Next)
          [] case = "Terminal" ->
                Cardinality(policy2.authorities \cap SignedFor(Namespaces.Terminal))
                   >= policy2.threshold

WellFormed(c, proof) ==
    CASE c = "Root" -> IsPersonaRootProof(proof)
      [] c = "Routine" -> IsPersonaTransitionProof(proof)
      [] c \in {"Enrollment", "Update"} -> IsRecoveryPolicyProof(proof)
      [] c = "Recovery" -> IsRecoveryTransitionProof(proof)
      [] c = "Terminal" -> IsTerminalPersonaRevocationProof(proof)

\* A proof a create_* function returns is well formed and verifies, even when a private key did
\* not belong to the public key it was taken for: such a call fails and
\* returns nothing.
CreatedProofsVerify ==
    created # None => WellFormed(case, created) /\ Verifies(case, created)

\* A root or a transition is signed only while it is fresh on the clock of the
\* machine that asks: an old unsigned statement does not come back
\* (CONTINUITY_ROOT_CLOCK_SKEW_SECONDS).
ConsentIsFresh ==
    reviewed # None =>
        /\ reviewed - Subject.issuedAt <= CONTINUITY_ROOT_CLOCK_SKEW_SECONDS
        /\ Subject.issuedAt - reviewed <= CONTINUITY_ROOT_CLOCK_SKEW_SECONDS
=============================================================================
