--------------------------- MODULE MCPersonaArchive ---------------------------
(* Small instances of PersonaArchive for TLC. *)
EXTENDS PersonaArchiveProofs, TLC

CONSTANTS k1, k2, k3, k4, a1, a2, s1, s2, w1, w2

MCKeys == {k1, k2, k3}
OneSession == {s1}
OneIssueTime == {1}
OneWrapper == {w1}
TwoWrappers == {w1, w2}
MCCeremonyEnds == {2}
BothCapabilities == {"KeyRecovery", "TerminalRevocation"}
MCTerms == {[issuedAt |-> 0, expiresAt |-> 3, schema |-> 2,
             capabilities |-> BothCapabilities, authorities |-> {a1, a2}]}
NoTerms == {}

-----------------------------------------------------------------------------
(* Backup files *)

RootRow == [statement |-> [key |-> k1, issuedAt |-> 0], recordedAt |-> 0]
PolicyRow ==
    [statement |-> [root |-> Digest(RootRow.statement), version |-> 1, previous |-> None,
                    checkpoint |-> [sequence |-> 0, digest |-> None],
                    issuedAt |-> 0, expiresAt |-> 3, schema |-> 2,
                    capabilities |-> BothCapabilities, authorities |-> {a1, a2}],
     recordedAt |-> 0]

First(kind, nextKey, expiresAt, reason) ==
    [kind |-> kind, root |-> Digest(RootRow.statement), sequence |-> 1,
     previous |-> None, previousKey |-> k1, nextKey |-> nextKey, issuedAt |-> 0,
     expiresAt |-> expiresAt,
     policy |-> IF kind = "Routine" THEN None ELSE Digest(PolicyRow.statement),
     reason |-> reason]
Row(statement, t) == [statement |-> statement, wrapper |-> w1, committedAt |-> t]

Evidence(policyRows, rows, last) ==
    [root |-> RootRow, policies |-> policyRows, journal |-> rows, terminal |-> last]
Status(active, retired, compromised) ==
    [k \in Keys |-> IF k \in active THEN "active"
                    ELSE IF k \in retired THEN "retired"
                    ELSE IF k \in compromised THEN "compromised" ELSE "unknown"]
Backup(statuses, latest, evidence) ==
    [keys |-> statuses, lifecycle |-> latest, exportedAt |-> 1, archive |-> evidence]

JustRooted == Backup(Status({k1}, {}, {}), 0, Evidence(<<PolicyRow>>, << >>, NoRow))

\* A rotation observed at time 1, after which the ancestor k3 stayed behind.
Rotated ==
    Backup(Status({k2}, {k1, k3}, {}), 1,
           Evidence(<<PolicyRow>>,
                    <<Row(First("Routine", k2, None, "Routine"), 1)>>, NoRow))

\* A recovery whose ceremony is over; the replaced key's status does or does not
\* say that it was compromised.
Recovered(statuses) ==
    Backup(statuses, 1,
           Evidence(<<PolicyRow>>,
                    <<Row(First("Recovery", k2, 1, "Compromise"), 1)>>, NoRow))

Ended(reason, statuses) ==
    Backup(statuses, 1,
           Evidence(<<PolicyRow>>, << >>,
                    Row(First("TerminalRevocation", None, None, reason), 1)))

\* Files that must not be accepted: a lifecycle after the export, a second
\* active key, and a rotation under no root that matches.
LateLifecycle == Backup(Status({k1}, {}, {}), 2, Evidence(<< >>, << >>, NoRow))
TwoActive == Backup(Status({k1, k2}, {}, {}), 0, Evidence(<< >>, << >>, NoRow))

MCBackups == {JustRooted, Rotated, Recovered(Status({k2}, {}, {k1})),
              Recovered(Status({k2}, {k1}, {})),
              Ended("Cessation", Status({}, {k1, k3}, {})),
              Ended("Compromise", Status({}, {}, {k1})),
              LateLifecycle, TwoActive}
\* The persona comes into being by an import of evidence.
ImportedNext == ArchiveNext /\ (KnownKeys = {} => archive' # NoRow)
ImportedSpec == ArchiveInit /\ [][ImportedNext]_archiveVars

=============================================================================
