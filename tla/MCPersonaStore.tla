---------------------------- MODULE MCPersonaStore ----------------------------
(* Small instances of PersonaStore for TLC. *)
EXTENDS PersonaStore, TLC

CONSTANTS k1, k2, k3, a1, a2, s1, s2, w1, w2

Both == {"KeyRecovery", "TerminalRevocation"}
Terms(issued, expires, capabilities, authorities) ==
    [issuedAt |-> issued, expiresAt |-> expires, schema |-> 2,
     capabilities |-> capabilities, authorities |-> authorities]

MCKeys == {k1, k2, k3}
OneSession == {s1}
MCSessions == {s1, s2}
MCIssueTimes == {0, 1}
MCNoTerms == {}
OneTerm == {Terms(0, 2, Both, {a1, a2})}
MCTerms == {Terms(0, 2, Both, {a1, a2}), Terms(1, 3, {"KeyRecovery"}, {a1, a2})}
MCCeremonyEnds == {2}
OneIssueTime == {1}
OneWrapper == {w1}
TwoWrappers == {w1, w2}
NoCeremonies == {}

\* A persona whose only key was enrolled, bound and made the root at time 0.
RootedInit ==
    /\ \E k \in Keys :
          /\ keys = [j \in Keys |-> IF j = k THEN "active" ELSE "unknown"]
          /\ refs = {k}
          /\ root = [statement |-> [key |-> k, issuedAt |-> 0], recordedAt |-> 0]
          /\ head = [revision |-> 0, sequence |-> 0, key |-> k, last |-> None, issuedAt |-> 0]
    /\ journal = << >> /\ policies = << >> /\ policyHead = NoRow /\ terminal = NoRow
    /\ archive = NoRow /\ receipt = NoRow
    /\ audit = 0
    /\ proofs = {} /\ told = {}
    /\ lock = None
    /\ sess = [s \in Sessions |-> Idle]

RootedSpec == RootedInit /\ [][Next]_vars

FullSymmetry == Permutations(Keys) \cup Permutations(Sessions)
=============================================================================
