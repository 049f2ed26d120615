--------------------------- MODULE MCConsentDaemon ---------------------------
(* Instances of ConsentDaemon.                                              *)
EXTENDS ConsentDaemon, TLC

CONSTANTS c1, c2, k1, k2, k3, l1, l2, x, y

RootStatement == [kind |-> "PersonaRoot", key |-> k1, issuedAt |-> 0]

\* Requests signed by the active key.
SigningRequests ==
    { [kind |-> "Malformed"], [kind |-> "Artifact"],
      [kind |-> "DomainControl", key |-> k1, issuedAt |-> 0, expiresAt |-> 1],
      RootStatement }

\* Rotations of a rooted persona, one behind the other.
Rotation(n, previous, k, l) ==
    [kind |-> "PersonaTransition", sequence |-> n, root |-> RootStatement,
     previous |-> previous, nextKey |-> k, locator |-> l]

FirstRotation == [sequence |-> 1, previousKey |-> k1, nextKey |-> k2, kind |-> "Routine"]

RotationRequests ==
    { Rotation(1, None, k2, l2), Rotation(2, FirstRotation, k3, l1) }

ParticipationRequests ==
    { [kind |-> "RecoveryParticipation", key |-> k1, locator |-> l1, issuedAt |-> 0, expiresAt |-> 2,
       pinsMatch |-> pins, authorized |-> role] : pins, role \in BOOLEAN }

\* One request of four kinds; a domain proof goes the way of an artifact's.
AllRequests ==
    { [kind |-> "Artifact"], RootStatement,
      Rotation(1, None, k2, l2),
      [kind |-> "RecoveryParticipation", key |-> k1, locator |-> l1, issuedAt |-> 0, expiresAt |-> 1,
       pinsMatch |-> TRUE, authorized |-> TRUE] }

-----------------------------------------------------------------------------
(* Four clienteles of the daemon, one in a behaviour: requests signed by    *)
(* the active key, with a file that changes; rotations of a rooted persona  *)
(* by two clients; ceremony participation as time passes; and, with the     *)
(* constants of the configuration, two clients with requests of four kinds. *)

VARIABLE clientele

Signing == INSTANCE ConsentDaemon WITH
    Connections <- {c1}, Contents <- {x, y}, Requests <- SigningRequests,
    ClockCanStepBack <- FALSE, MaxOutside <- 1, MaxCrashes <- 1

Rotating == INSTANCE ConsentDaemon WITH
    Keys <- {k1, k2, k3}, Requests <- RotationRequests, Wrappers <- {1, 2},
    ClockCanStepBack <- FALSE, MaxTime <- 0, MaxJournal <- 2, MaxOutside <- 1,
    MaxCrashes <- 1

Participating == INSTANCE ConsentDaemon WITH
    Connections <- {c1}, Requests <- ParticipationRequests,
    ClockCanStepBack <- FALSE, MaxTime <- 3, MaxJournal <- 0, MaxOutside <- 2

\* The root is already recorded, with the consent of an earlier request.
RootProof == [by |-> k1, subject |-> RootStatement, wrapper |-> 1]

RootedInit ==
    /\ store = [key |-> k1, locator |-> l1, spent |-> {}, root |-> RootProof, journal |-> <<>>]
    /\ holds = (l1 :> k1 @@ l2 :> k2)
    /\ clock = 0
    /\ conn = [c \in Connections |->
                 [state |-> "away", request |-> None, bytes |-> x, answer |-> None]]
    /\ backlog = <<>>
    /\ pc = "idle"
    /\ job = NoJob
    /\ approvals = {[id |-> None, key |-> k1, subject |-> RootStatement]}
    /\ released = {} /\ commits = {}
    /\ outside = 0 /\ crashes = 0

ClienteleInit ==
    \/ clientele = "all" /\ Init
    \/ clientele = "signing" /\ Signing!Init
    \/ clientele = "rotating" /\ RootedInit
    \/ clientele = "participating" /\ Participating!Init

ClienteleNext ==
    /\ UNCHANGED clientele
    /\ \/ clientele = "all" /\ Next
       \/ clientele = "signing" /\ Signing!Next
       \/ clientele = "rotating" /\ Rotating!Next
       \/ clientele = "participating" /\ Participating!Next

\* Every wait in the daemon ends, so it keeps taking its own steps; clients,
\* other processes and the clock need not move, and a killed daemon may stay down.
ClienteleSpec ==
    /\ ClienteleInit /\ [][ClienteleNext]_<<vars, clientele>>
    /\ WF_vars(clientele = "all" /\ Daemon)
    /\ WF_vars(clientele = "signing" /\ Signing!Daemon)
    /\ WF_vars(clientele = "rotating" /\ Rotating!Daemon)
    /\ WF_vars(clientele = "participating" /\ Participating!Daemon)

\* ProofsMadeInTime, where the clock is not set back: the daemon compares
\* readings of the wall clock, and the clientele "all" may set it back.
MadeInTimeByASteadyClock == clientele # "all" => ProofsMadeInTime
=============================================================================
