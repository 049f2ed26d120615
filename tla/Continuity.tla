------------------------------ MODULE Continuity ------------------------------
(***************************************************************************)
(* The continuity rules of crate a-quo-core (continuity.rs, recovery.rs),  *)
(* as pure operators: which recovery-policy chains and which transition    *)
(* chains verify from nothing, and which single statement may extend a     *)
(* chain that has already been verified.                                   *)
(*                                                                         *)
(* A statement is a record.  Its SHA-256 digest is modelled by the         *)
(* statement itself, so equal digests mean equal statements; None is the   *)
(* absent digest (Rust's Option::None).  Signatures are not modelled here: *)
(* a statement that reaches these operators carries valid signatures.      *)
(*                                                                         *)
(*   root       [key, issuedAt]                                            *)
(*   policy     [root, version, previous, checkpoint, issuedAt, expiresAt, *)
(*               schema, capabilities, authorities]                        *)
(*   transition [kind, root, sequence, previous, previousKey, nextKey,     *)
(*               issuedAt, expiresAt, policy, reason]                      *)
(*                                                                         *)
(* Routine statements have no policy and no expiry, terminal revocations   *)
(* no next key and no expiry; those fields are then None.                  *)
(***************************************************************************)
EXTENDS Integers, Sequences

CONSTANTS
    None,                          \* Option::None; a model value
    MAX_CONTINUITY_TRANSITIONS,    \* 4096 in continuity.rs
    MAX_RECOVERY_POLICY_VERSIONS   \* 1024 in recovery.rs

ASSUME LimitsAssumption ==
    /\ MAX_CONTINUITY_TRANSITIONS \in Nat
    /\ MAX_RECOVERY_POLICY_VERSIONS \in Nat

\* Definitions named Slip... are deliberately wrong variants of the definition
\* that follows them; none is used.
SlipNoRoomForTerminal == MAX_CONTINUITY_TRANSITIONS
MAX_TERMINAL_PERSONA_REVOCATION_SEQUENCE == MAX_CONTINUITY_TRANSITIONS + 1

Digest(statement) == statement

-----------------------------------------------------------------------------
(* Recovery policies *)

\* A schema-v1 policy carries no capability list and means key recovery only.
Authorizes(policy, capability) ==
    IF policy.schema = 1 THEN capability = "KeyRecovery"
                         ELSE capability \in policy.capabilities

\* policy_time_status(...) = Active: the end of the window is exclusive.
PolicyActiveAt(policy, t) == policy.issuedAt <= t /\ t < policy.expiresAt

ValidateRecoveryCheckpoint(checkpoint) ==
    /\ checkpoint.sequence \in 0 .. MAX_CONTINUITY_TRANSITIONS
    /\ (checkpoint.sequence = 0) <=> (checkpoint.digest = None)

ValidateRecoveryPolicyStatement(policy) ==
    /\ IF policy.schema = 1 THEN policy.capabilities = {}
                            ELSE policy.capabilities # {}
    /\ policy.version >= 1
    /\ (policy.version = 1) <=> (policy.previous = None)
    /\ ValidateRecoveryCheckpoint(policy.checkpoint)
    /\ policy.issuedAt < policy.expiresAt

ValidatePolicyRootBinding(root, policy) ==
    /\ policy.root = Digest(root)
    /\ policy.issuedAt >= root.issuedAt

ValidatePolicySuccessor(before, policy) ==
    /\ before.schema = 2 => policy.schema = 2
    /\ policy.root = before.root
    /\ policy.version = before.version + 1
    /\ policy.previous = Digest(before)
    /\ policy.issuedAt >= before.issuedAt
    /\ policy.checkpoint.sequence >= before.checkpoint.sequence
    /\ policy.checkpoint.sequence = before.checkpoint.sequence
          => policy.checkpoint.digest = before.checkpoint.digest

VerifyRecoveryPolicySequence(root, policies) ==
    /\ Len(policies) \in 1 .. MAX_RECOVERY_POLICY_VERSIONS
    /\ policies[1].version = 1
    /\ \A v \in 1 .. Len(policies) :
          /\ ValidateRecoveryPolicyStatement(policies[v])
          /\ ValidatePolicyRootBinding(root, policies[v])
    /\ \A v \in 2 .. Len(policies) :
          ValidatePolicySuccessor(policies[v - 1], policies[v])

-----------------------------------------------------------------------------
(* Transition statements on their own *)

IsTerminal(st) == st.kind = "TerminalRevocation"

\* The persona_transition, recovery_transition and terminal_persona_revocation
\* statement validators, by kind.
ValidateStatement(st) ==
    /\ st.sequence >= 1
    /\ (st.sequence = 1) <=> (st.previous = None)
    /\ CASE st.kind = "Routine" -> st.previousKey # st.nextKey
         [] st.kind = "Recovery" ->
              /\ st.previousKey # st.nextKey
              /\ st.expiresAt # None => st.issuedAt < st.expiresAt
         [] st.kind = "TerminalRevocation" ->
              st.sequence <= MAX_TERMINAL_PERSONA_REVOCATION_SEQUENCE
         [] OTHER -> FALSE

ValidateRecoveryTransitionPolicyBinding(policy, st) ==
    /\ st.root = policy.root
    /\ st.policy = Digest(policy)
    /\ Authorizes(policy, "KeyRecovery")
    /\ PolicyActiveAt(policy, st.issuedAt)
    /\ st.expiresAt # None => st.expiresAt <= policy.expiresAt
    /\ st.previousKey \notin policy.authorities
    /\ st.nextKey \notin policy.authorities

ValidateTerminalPersonaRevocationPolicyBinding(policy, st) ==
    /\ st.root = policy.root
    /\ st.policy = Digest(policy)
    /\ Authorizes(policy, "TerminalRevocation")
    /\ PolicyActiveAt(policy, st.issuedAt)
    /\ st.previousKey \notin policy.authorities

\* The index of the policy a recovery transition names, if the verified chain
\* holds it and it was still the latest at that point of the continuity.
RecoveryPolicyForTransition(policies, st, v) ==
    /\ v \in 1 .. Len(policies)
    /\ Digest(policies[v]) = st.policy
    /\ st.sequence > policies[v].checkpoint.sequence
    /\ v < Len(policies)
          => st.sequence <= policies[v + 1].checkpoint.sequence

-----------------------------------------------------------------------------
(* Whole chains.  ts is the sequence of transition statements; the report  *)
(* of a verified chain is what the verifier's loop variables hold after n  *)
(* of its entries.                                                         *)

TipKey(root, ts, n) ==
    IF n = 0 THEN root.key
    ELSE IF IsTerminal(ts[n]) THEN ts[n].previousKey ELSE ts[n].nextKey

LastDigest(ts, n) == IF n = 0 THEN None ELSE Digest(ts[n])

LastIssuedAt(root, ts, n) == IF n = 0 THEN root.issuedAt ELSE ts[n].issuedAt

\* validate_verified_transition_at_head: st follows the first n entries.
LinksAt(root, ts, n, st) ==
    /\ st.sequence = n + 1
    /\ st.root = Digest(root)
    /\ st.previous = LastDigest(ts, n)
    /\ st.previousKey = TipKey(root, ts, n)
    /\ st.issuedAt >= LastIssuedAt(root, ts, n)

TerminallyRevoked(ts) == \E i \in 1 .. Len(ts) : IsTerminal(ts[i])

OnlineKeys(root, ts) ==
    {root.key} \cup
    {ts[i].nextKey : i \in {j \in 1 .. Len(ts) : ~ IsTerminal(ts[j])}}

VerifyRoutineChain(root, ts) ==
    /\ Len(ts) <= MAX_CONTINUITY_TRANSITIONS
    /\ \A i \in 1 .. Len(ts) :
          /\ ts[i].kind = "Routine"
          /\ ValidateStatement(ts[i])
          /\ LinksAt(root, ts, i - 1, ts[i])

\* What the verifier asks of one entry under the policy chain.
AuthorizedByPolicies(root, policies, st) ==
    CASE st.kind = "Routine" -> TRUE
      [] st.kind = "Recovery" ->
           \E v \in 1 .. Len(policies) :
              /\ RecoveryPolicyForTransition(policies, st, v)
              /\ ValidateRecoveryTransitionPolicyBinding(policies[v], st)
      [] OTHER ->
           LET latest == policies[Len(policies)] IN
              /\ st.sequence > latest.checkpoint.sequence
              /\ ValidateTerminalPersonaRevocationPolicyBinding(latest, st)

PolicyCheckpointMatches(ts, policy) ==
    policy.checkpoint.sequence # 0 =>
        /\ policy.checkpoint.sequence <= Len(ts)
        /\ policy.checkpoint.digest = Digest(ts[policy.checkpoint.sequence])
        /\ policy.issuedAt >= ts[policy.checkpoint.sequence].issuedAt

VerifyRecoveryAwareChain(root, ts, policies) ==
    /\ \A i \in 1 .. Len(ts) : IsTerminal(ts[i]) => i = Len(ts)
    /\ Len(ts) <= IF TerminallyRevoked(ts)
                  THEN MAX_TERMINAL_PERSONA_REVOCATION_SEQUENCE
                  ELSE MAX_CONTINUITY_TRANSITIONS
    /\ VerifyRecoveryPolicySequence(root, policies)
    /\ \A i \in 1 .. Len(ts) :
          /\ ValidateStatement(ts[i])
          /\ AuthorizedByPolicies(root, policies, ts[i])
          /\ LinksAt(root, ts, i - 1, ts[i])
    /\ \A v \in 1 .. Len(policies) :
          /\ PolicyCheckpointMatches(ts, policies[v])
          /\ policies[v].authorities \cap OnlineKeys(root, ts) = {}

\* A store without policies verifies a routine chain, one with policies the
\* recovery-aware chain.
VerifyChain(root, ts, policies) ==
    IF policies = << >> THEN VerifyRoutineChain(root, ts)
                        ELSE VerifyRecoveryAwareChain(root, ts, policies)

-----------------------------------------------------------------------------
(* Extending a chain that is already verified, without verifying it again *)

\* validate_verified_persona_continuity_chain_extension
RoutineExtension(root, ts, st) ==
    /\ st.kind = "Routine"
    /\ ValidateStatement(st)
    /\ Len(ts) < MAX_CONTINUITY_TRANSITIONS
    /\ LinksAt(root, ts, Len(ts), st)

RecoveryAwareTransitionAtHead(root, ts, policies, st) ==
    /\ ~ TerminallyRevoked(ts)
    /\ Len(ts) < MAX_CONTINUITY_TRANSITIONS
    /\ LinksAt(root, ts, Len(ts), st)
    /\ \A v \in 1 .. Len(policies) : st.nextKey \notin policies[v].authorities

RoutineExtensionWithRecovery(root, ts, policies, st) ==
    /\ st.kind = "Routine"
    /\ ValidateStatement(st)
    /\ RecoveryAwareTransitionAtHead(root, ts, policies, st)

RecoveryExtension(root, ts, policies, st) ==
    /\ st.kind = "Recovery"
    /\ ValidateStatement(st)
    /\ RecoveryAwareTransitionAtHead(root, ts, policies, st)
    /\ \E v \in 1 .. Len(policies) :
          /\ RecoveryPolicyForTransition(policies, st, v)
          /\ ValidateRecoveryTransitionPolicyBinding(policies[v], st)

TerminalExtension(root, ts, policies, st) ==
    LET latest == policies[Len(policies)] IN
    /\ st.kind = "TerminalRevocation"
    /\ ValidateStatement(st)
    /\ ~ TerminallyRevoked(ts)
    /\ Len(ts) <= MAX_CONTINUITY_TRANSITIONS
    /\ LinksAt(root, ts, Len(ts), st)
    /\ st.sequence > latest.checkpoint.sequence
    /\ ValidateTerminalPersonaRevocationPolicyBinding(latest, st)

\* The extension rule the store applies, by the kind of chain and statement.
ChainExtension(root, ts, policies, st) ==
    IF policies = << >> THEN RoutineExtension(root, ts, st)
    ELSE \/ RoutineExtensionWithRecovery(root, ts, policies, st)
         \/ RecoveryExtension(root, ts, policies, st)
         \/ TerminalExtension(root, ts, policies, st)
=============================================================================
