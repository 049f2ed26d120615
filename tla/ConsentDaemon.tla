--------------------------- MODULE ConsentDaemon ---------------------------
(***************************************************************************)
(* The consent daemon (crate a-quo-daemon): one process that accepts one   *)
(* connection at a time, shows the request to the user, signs with the     *)
(* persona's key and answers.                                              *)
(*                                                                         *)
(* The daemon never holds a database lock while the user thinks or a       *)
(* hardware key waits for a touch, so each step below is one stretch of    *)
(* code between two such waits, and between any two steps                  *)
(*   - other processes write the persona database (Outside actions),       *)
(*   - the client changes the file it passed, sends more, or goes away,    *)
(*   - the file behind a signing reference is replaced, the clock moves,   *)
(*   - the daemon is killed and started again.                             *)
(*                                                                         *)
(* The database is seen through what the daemon reads of it: the active    *)
(* key with its signing reference, the recorded root and the transition    *)
(* journal.  PersonaStore models what lies behind these calls.             *)
(***************************************************************************)
EXTENDS Integers, Sequences, FiniteSets

CONSTANTS
    Connections,       \* connections clients make, each for one request
    Keys,              \* keys of the persona, enrolled or proposed
    FirstKey,          \* the active key at the start
    Locators,          \* paths of signing references
    Contents,          \* what an artifact file may contain
    Requests,          \* what clients may ask for
    Wrappers,          \* distinct signatures of one key over one statement
    LISTEN_BACKLOG,    \* 8 in listener.rs
    ClockCanStepBack,  \* whether the wall clock may be set back
    MaxTime,           \* bounds: clock readings,
    MaxJournal,        \*   rows of the journal,
    MaxOutside,        \*   steps of other processes,
    MaxCrashes,        \*   crashes of the daemon
    None

Times == 0 .. MaxTime

\* receive_sign_request tells five kinds of request apart and refuses the rest.
RequestKinds == {"Malformed", "Artifact", "DomainControl", "PersonaRoot",
                 "PersonaTransition", "RecoveryParticipation"}
Expiring == {"DomainControl", "RecoveryParticipation"}

ASSUME DaemonAssumption ==
    /\ MaxTime \in Nat
    /\ \A r \in Requests : /\ r.kind \in RequestKinds
                           /\ r.kind \in Expiring => r.expiresAt \in Nat
    /\ None \notin {"InvalidRequest", "ClientCancelled"}

VARIABLES
    store,      \* [key, locator, spent, root, journal]: the database
    holds,      \* the private key in the file at each locator, or None
    clock,
    conn,       \* each connection: [state, request, bytes, answer]
    backlog,    \* connections not accepted yet
    pc,         \* the step the daemon takes next; "down" if not running
    job,        \* the daemon's variables for the request it handles
    approvals,  \* what the user approved: [id, key, subject]
    released,   \* answers sent: [id, proof, fresh, signedAt]
    commits,    \* writes the daemon made: [id, subject, waiting]
    outside, crashes

vars == <<store, holds, clock, conn, backlog, pc, job, approvals, released,
          commits, outside, crashes>>

World == <<store, holds, clock, outside>>
History == <<approvals, released, commits>>

NoJob == [conn |-> None, request |-> None, signer |-> None,
          seen |-> None, subject |-> None, proof |-> None, at |-> 0,
          fresh |-> FALSE, waiting |-> FALSE, signedAt |-> 0]

-----------------------------------------------------------------------------
(* What the daemon asks the store                                          *)

\* active_signer_for_persona: the unique active key with its bound signing
\* reference, whose file must still be there.
ActiveSigner ==
    IF store.key # None /\ store.locator # None /\ holds[store.locator] # None
    THEN [key |-> store.key, locator |-> store.locator]
    ELSE None

\* The digest of a transition statement: every signed field.
Digest(entry) == [sequence |-> entry.sequence, previousKey |-> entry.previousKey,
                  nextKey |-> entry.nextKey, kind |-> entry.kind]

HeadSequence == Len(store.journal)

HeadDigest ==
    IF store.journal = <<>> THEN None ELSE Digest(store.journal[HeadSequence])

\* A journal row: the statement and its signatures.
Row(statement, proof) ==
    [kind |-> statement.kind, sequence |-> statement.sequence,
     previous |-> statement.previous, previousKey |-> statement.previousKey,
     nextKey |-> statement.nextKey, proof |-> proof]

\* continuity_snapshot: the root and the whole journal, or None without root.
ContinuitySnapshot ==
    IF store.root = None THEN None
    ELSE [root |-> store.root, journal |-> store.journal]

\* validate_routine_rotation_candidate: an active signer, a key this persona
\* never had, a reference to an existing file, room in the journal.
RotationCandidate(r) ==
    /\ ActiveSigner # None
    /\ r.nextKey \notin store.spent \union {store.key}
    /\ holds[r.locator] # None
    /\ HeadSequence < MaxJournal

\* commit_routine_transition: compare-and-swap of the head, in one transaction.
CommitAccepted(entry, locator) ==
    /\ store.root # None
    /\ entry.sequence = HeadSequence + 1
    /\ entry.previous = HeadDigest
    /\ store.key = entry.previousKey
    /\ entry.nextKey \notin store.spent \union {store.key}
    /\ holds[locator] # None
    /\ HeadSequence < MaxJournal

-----------------------------------------------------------------------------
(* The connection and the outcome                                          *)

\* connection_failure: a closed peer, or one that sent more than one packet.
ConnectionFailure ==
    CASE conn[job.conn].state = "open"  -> None
      [] conn[job.conn].state = "extra" -> "InvalidRequest"
      [] OTHER                              -> "ClientCancelled"

\* rejected(..) and the answer handle_connection sends for it.
Reject(failure) ==
    /\ pc' = "idle"
    /\ job' = NoJob
    /\ conn' = [conn EXCEPT
         ![job.conn].state = IF @ = "closed" THEN @ ELSE "done",
         ![job.conn].answer = IF conn[job.conn].state = "closed"
                                THEN None ELSE failure]
    /\ UNCHANGED <<World, History, backlog, crashes>>

\* Most steps end in an early return or go on to the next step.
GoOn(next, newJob) ==
    /\ pc' = next
    /\ job' = newJob
    /\ UNCHANGED <<World, History, conn, backlog, crashes>>

FirstFailure(failures) ==
    LET bad == {i \in DOMAIN failures : failures[i] # None}
    IN  IF bad = {} THEN None
        ELSE failures[CHOOSE i \in bad : \A j \in bad : i <= j]

Unless(condition, failure) == IF condition THEN None ELSE failure

\* listener.accept in the main loop.
Accept ==
    /\ pc = "idle" /\ backlog # <<>>
    /\ LET c == Head(backlog)
       IN  /\ backlog' = Tail(backlog)
           /\ conn' = [conn EXCEPT ![c].state = IF @ = "queued" THEN "open" ELSE @]
           /\ job' = [NoJob EXCEPT !.conn = c, !.request = conn[c].request]
    /\ pc' = "receive"
    /\ UNCHANGED <<World, History, crashes>>

\* receive_sign_request, the first look at the connection, and the dispatch.
Receive ==
    /\ pc = "receive"
    /\ LET failure == FirstFailure(<<
             Unless(job.request.kind # "Malformed", "InvalidRequest"),
             ConnectionFailure >>)
       IN  IF failure # None THEN Reject(failure)
           ELSE GoOn(CASE job.request.kind = "PersonaTransition" -> "reviewTransition"
                       [] job.request.kind = "RecoveryParticipation" -> "reviewParticipation"
                       [] OTHER -> "review", job)

-----------------------------------------------------------------------------
(* Artifacts, domain statements and persona roots                          *)

\* prepare_request: the sealed snapshot of an artifact, or the statement if
\* its review accepts it now, for this key.
PrepareRequest ==
    LET r == job.request
    IN  CASE r.kind = "Artifact" ->
               [kind |-> "Artifact", content |-> conn[job.conn].bytes]
          [] r.kind = "DomainControl" ->
               IF r.key = ActiveSigner.key /\ r.issuedAt <= clock /\ clock < r.expiresAt
               THEN [kind |-> "DomainControl", issuedAt |-> r.issuedAt, expiresAt |-> r.expiresAt]
               ELSE None
          [] r.kind = "PersonaRoot" ->
               IF r.key = ActiveSigner.key /\ r.issuedAt <= clock
               THEN [kind |-> "PersonaRoot", key |-> r.key, issuedAt |-> r.issuedAt]
               ELSE None

\* Up to approval.decide.
Review ==
    /\ pc = "review"
    /\ LET signer == ActiveSigner
           subject == IF signer = None THEN None ELSE PrepareRequest
           failure == FirstFailure(<<
             Unless(signer # None, "PersonaUnavailable"),
             Unless(subject # None, "InvalidRequest"),
             ConnectionFailure >>)
       IN  IF failure # None THEN Reject(failure)
           ELSE GoOn("prompt", [job EXCEPT !.signer = signer, !.subject = subject])

\* approval_prompt: the key and the subject on show.
Prompt == [id |-> job.conn, key |-> job.signer.key, subject |-> job.subject]

AfterConsent ==
    CASE job.request.kind = "PersonaTransition" -> "recheckTransition"
      [] job.request.kind = "RecoveryParticipation" -> "recheckParticipation"
      [] OTHER -> "recheck"

SlipAsksAgain ==
    /\ pc = "prompt"
    /\ \/ GoOn("receive", job)
       \/ /\ approvals' = approvals \union {Prompt}
          /\ pc' = AfterConsent
          /\ UNCHANGED <<World, released, commits, conn, backlog, job, crashes>>

\* approval.decide: the user's answer, or the approval process's failure.
Decide ==
    /\ pc = "prompt"
    /\ \/ \E failure \in {"UserDeclined", "ClientCancelled", "ConsentUnavailable"} :
            Reject(failure)
       \/ /\ approvals' = approvals \union {Prompt}
          /\ pc' = AfterConsent
          /\ UNCHANGED <<World, released, commits, conn, backlog, job, crashes>>

\* The signer policy must be what the prompt showed.
Recheck ==
    /\ pc = "recheck"
    /\ LET failure == FirstFailure(<<
             ConnectionFailure,
             Unless(ActiveSigner = job.signer, "PersonaUnavailable") >>)
       IN  IF failure # None THEN Reject(failure) ELSE GoOn("sign", job)

\* ssh-keygen signs with whatever key the file holds; the proof is then
\* verified against the registered public key.
SignerMakes(key, locator) == holds[locator] = key

\* What the daemon remembers of the moment of signing.
Signed(proof) ==
    [job EXCEPT !.proof = proof,
                !.fresh = job.signer.key \notin store.spent,
                !.waiting = conn[job.conn].state = "open",
                !.signedAt = clock]

SlipSignsTheClientsFile(locator, wrapper) ==
    [by |-> holds[locator], wrapper |-> wrapper,
     subject |-> IF job.subject.kind = "Artifact"
                 THEN [kind |-> "Artifact", content |-> conn[job.conn].bytes]
                 ELSE job.subject]

\* The proof a signature with the key now behind the locator gives.
ProofBy(locator, wrapper) ==
    [by |-> holds[locator], subject |-> job.subject, wrapper |-> wrapper]

\* sign_prepared_request.  The signer may also fail or time out.
SignPrepared ==
    /\ pc = "sign"
    /\ \/ Reject("SignerUnavailable")
       \/ /\ job.subject.kind = "PersonaRoot" /\ job.subject.issuedAt > clock
          /\ Reject("InvalidRequest")
       \/ /\ job.subject.kind = "PersonaRoot" => job.subject.issuedAt <= clock
          /\ SignerMakes(job.signer.key, job.signer.locator)
          /\ \E wrapper \in Wrappers :
               /\ ProofBy(job.signer.locator, wrapper) # None  \* it is a proof
               /\ GoOn("signed", Signed(ProofBy(job.signer.locator, wrapper)))

\* verify_domain_control_proof reads the clock again after the signer.
DomainProofHolds ==
    job.subject.kind = "DomainControl" =>
        job.subject.issuedAt <= clock /\ clock < job.subject.expiresAt

\* The self-verification, the second look at the signer policy and, before a
\* root is recorded, at the connection.
PostCheck ==
    LET root == job.subject.kind = "PersonaRoot"
        failure == FirstFailure(<<
          Unless(DomainProofHolds, "InvalidRequest"),
          Unless(ActiveSigner = job.signer, "PersonaUnavailable"),
          IF root THEN ConnectionFailure ELSE None >>)
    IN  /\ pc = "signed"
        /\ IF failure # None THEN Reject(failure)
           ELSE GoOn(IF root THEN "record" ELSE "respond", job)

\* record_continuity_root: the first root of the active key, or the very same
\* proof again.
RootAccepted(proof) ==
    \/ store.root = proof
    \/ store.root = None /\ store.key = proof.subject.key

RecordRoot ==
    /\ pc = "record"
    /\ \/ ~RootAccepted(job.proof) /\ Reject("InvalidRequest")
       \/ /\ RootAccepted(job.proof)
          /\ store' = [store EXCEPT !.root = job.proof]
          /\ commits' = commits \union {[id |-> job.conn, subject |-> job.subject,
                                         waiting |-> job.waiting]}
          /\ pc' = "respond"
          /\ UNCHANGED <<holds, clock, outside, approvals, released, conn,
                         backlog, job, crashes>>

\* handle_connection's last look at the client, then the answer.
Respond ==
    /\ pc = "respond"
    /\ \/ ConnectionFailure # None /\ Reject(ConnectionFailure)
       \/ /\ ConnectionFailure = None
          /\ released' = released \union {[id |-> job.conn, proof |-> job.proof,
                                           fresh |-> job.fresh, signedAt |-> job.signedAt]}
          /\ conn' = [conn EXCEPT ![job.conn].state = "done",
                                      ![job.conn].answer = "approved"]
          /\ pc' = "idle"
          /\ job' = NoJob
          /\ UNCHANGED <<World, approvals, commits, backlog, crashes>>

-----------------------------------------------------------------------------
(* Routine transitions                                                     *)

\* transition_request_matches_head.
TransitionRequestMatchesHead(r, snapshot) ==
    /\ Len(snapshot.journal) + 1 = r.sequence
    /\ snapshot.root.subject = r.root
    /\ HeadDigest = r.previous

\* Whether the head of the journal is the routine transition asked for.
HeadIsTheRequest(r) ==
    LET entry == store.journal[HeadSequence]
    IN  /\ store.journal # <<>>
        /\ HeadSequence = r.sequence
        /\ entry.kind = "Routine"
        /\ store.root.subject = r.root
        /\ entry.previous = r.previous
        /\ entry.nextKey = r.nextKey

\* retry_locator_matches: the stored locator, or a path that resolves to it.
RetryLocatorMatches(r) == store.locator = r.locator

\* exact_transition_retry: "again" when the request is already the committed
\* head with the same reference, "new" when it is not, else the failure.
ExactTransitionRetry(r) ==
    IF HeadSequence # r.sequence THEN "new"
    ELSE IF store.journal = <<>> THEN "InvalidRequest"
    ELSE IF ~HeadIsTheRequest(r) THEN "new"
    ELSE IF store.key # r.nextKey \/ store.locator = None THEN "InvalidRequest"
    ELSE IF ~RetryLocatorMatches(r) THEN "new"
    ELSE "again"

\* The canonical statement new_routine_transition_statement builds.
TransitionStatement(r) ==
    [kind |-> "Routine", sequence |-> r.sequence, previous |-> r.previous,
     previousKey |-> ActiveSigner.key, nextKey |-> r.nextKey]

\* process_persona_transition up to approval.decide.
ReviewTransition ==
    LET r == job.request
        snapshot == ContinuitySnapshot
        retry == IF snapshot = None THEN "PersonaUnavailable" ELSE ExactTransitionRetry(r)
        failure == FirstFailure(<<
          Unless(retry \in {"new", "again"}, retry),
          Unless(retry = "again" \/ (snapshot # None /\ TransitionRequestMatchesHead(r, snapshot)),
                 "InvalidRequest"),
          Unless(retry = "again" \/ ActiveSigner # None, "PersonaUnavailable"),
          Unless(retry = "again" \/ RotationCandidate(r), "SignerUnavailable"),
          ConnectionFailure >>)
    IN  /\ pc = "reviewTransition"
        /\ IF failure # None THEN Reject(failure)
           ELSE IF retry = "again"
                THEN GoOn("respond", [job EXCEPT !.proof = store.journal[HeadSequence].proof,
                                                 !.fresh = TRUE])
                ELSE GoOn("prompt", [job EXCEPT !.signer = ActiveSigner, !.seen = snapshot,
                                                !.subject = TransitionStatement(r)])

\* After consent: the same snapshot, signer and candidate.
RecheckTransition ==
    LET failure == FirstFailure(<<
          ConnectionFailure,
          Unless(ContinuitySnapshot = job.seen, "PersonaUnavailable"),
          Unless(ActiveSigner = job.signer, "PersonaUnavailable"),
          Unless(RotationCandidate(job.request), "SignerUnavailable") >>)
    IN  /\ pc = "recheckTransition"
        /\ IF failure # None THEN Reject(failure) ELSE GoOn("signTransition", job)

\* verify_new_transition: the statement that was approved, extending the
\* journal that was on show.
VerifyNewTransition(proof) ==
    /\ proof.subject = job.subject
    /\ proof.subject.sequence = Len(job.seen.journal) + 1

\* create_routine_transition_proof has both keys sign.
SignTransition ==
    /\ pc = "signTransition"
    /\ \/ Reject("SignerUnavailable")
       \/ /\ SignerMakes(job.signer.key, job.signer.locator)
          /\ SignerMakes(job.request.nextKey, job.request.locator)
          /\ \E wrapper \in Wrappers :
               /\ VerifyNewTransition(ProofBy(job.signer.locator, wrapper))
               /\ GoOn("signedTransition", Signed(ProofBy(job.signer.locator, wrapper)))

SlipAnswersBeforeCommit ==
    /\ pc = "signedTransition"
    /\ GoOn("respond", job)

SlipConnectionNotCheckedBeforeCommit ==
    /\ pc = "signedTransition"
    /\ GoOn("commit", job)

CheckBeforeCommit ==
    /\ pc = "signedTransition"
    /\ IF ConnectionFailure # None THEN Reject(ConnectionFailure) ELSE GoOn("commit", job)

\* commit_routine_transition.
CommitTransition ==
    /\ pc = "commit"
    /\ \/ /\ ~CommitAccepted(job.subject, job.request.locator)
          /\ Reject("InvalidRequest")
       \/ /\ CommitAccepted(job.subject, job.request.locator)
          /\ store' = [store EXCEPT
               !.journal = Append(@, Row(job.subject, job.proof)),
               !.key = job.subject.nextKey,
               !.locator = job.request.locator,
               !.spent = @ \union {job.subject.previousKey}]
          /\ commits' = commits \union {[id |-> job.conn, subject |-> job.subject,
                                         waiting |-> job.waiting]}
          /\ pc' = "confirm"
          /\ UNCHANGED <<holds, clock, outside, approvals, released, conn,
                         backlog, job, crashes>>

\* The committed row is read back before it is answered.
ConfirmTransition ==
    /\ pc = "confirm"
    /\ IF /\ HeadSequence = job.subject.sequence
          /\ store.journal[HeadSequence].proof = job.proof
       THEN GoOn("respond", job)
       ELSE Reject("Internal")

-----------------------------------------------------------------------------
(* Taking part in a recovery ceremony                                      *)

\* pins_match: the checkpoints the participant supplied are the request's.
PinsMatch(r) == r.pinsMatch

\* The request verifies at this time, for a key with a role in it.
CeremonyAccepts(r) ==
    PinsMatch(r) /\ r.authorized /\ r.issuedAt <= clock /\ clock < r.expiresAt

\* validate_signing_reference: the file and its identity.
SigningReferenceIdentity(r) == holds[r.locator]

ReviewParticipation ==
    LET r == job.request
        failure == FirstFailure(<<
          Unless(CeremonyAccepts(r), "InvalidRequest"),
          Unless(SigningReferenceIdentity(r) # None, "SignerUnavailable"),
          ConnectionFailure >>)
    IN  /\ pc = "reviewParticipation"
        /\ IF failure # None THEN Reject(failure)
           ELSE GoOn("prompt", [job EXCEPT
                  !.signer = [key |-> r.key, locator |-> r.locator],
                  !.seen = SigningReferenceIdentity(r),
                  !.subject = [kind |-> "RecoveryParticipation", expiresAt |-> r.expiresAt],
                  !.at = clock])

\* A fresh clock reading, not before the first; the same request and file.
RecheckParticipation ==
    LET failure == FirstFailure(<<
          ConnectionFailure,
          Unless(clock >= job.at, "InvalidRequest"),
          Unless(CeremonyAccepts(job.request), "InvalidRequest"),
          Unless(SigningReferenceIdentity(job.request) = job.seen, "SignerUnavailable") >>)
    IN  /\ pc = "recheckParticipation"
        /\ IF failure # None THEN Reject(failure)
           ELSE GoOn("signParticipation", [job EXCEPT !.at = clock])

\* sign_recovery_ceremony_request.
SignParticipation ==
    /\ pc = "signParticipation"
    /\ \/ Reject("SignerUnavailable")
       \/ /\ SignerMakes(job.signer.key, job.signer.locator)
          /\ \E wrapper \in Wrappers :
               GoOn("complete", Signed(ProofBy(job.signer.locator, wrapper)))

SlipNoCheckOnCompletion ==
    /\ pc = "complete"
    /\ IF ConnectionFailure # None THEN Reject(ConnectionFailure) ELSE GoOn("respond", job)

\* verify_recovery_ceremony_response at a third reading of the clock, not
\* before the second.
CompleteParticipation ==
    LET failure == FirstFailure(<<
          ConnectionFailure,
          Unless(clock >= job.at /\ clock < job.request.expiresAt, "InvalidRequest") >>)
    IN  /\ pc = "complete"
        /\ IF failure # None THEN Reject(failure) ELSE GoOn("respond", job)

-----------------------------------------------------------------------------
(* Everything else that happens                                            *)

\* A client connects and sends its request with a descriptor.
Connect(c, r) ==
    /\ pc # "down"
    /\ conn[c].state = "away"
    /\ Len(backlog) < LISTEN_BACKLOG
    /\ conn' = [conn EXCEPT ![c].state = "queued", ![c].request = r]
    /\ backlog' = Append(backlog, c)
    /\ UNCHANGED <<World, History, pc, job, crashes>>

\* It goes away, sends a second packet, or rewrites the file it passed.
ClientActs(c) ==
    /\ conn[c].state \in {"queued", "open"}
    /\ \/ conn' = [conn EXCEPT ![c].state = "closed"]
       \/ conn[c].state = "open" /\ conn' = [conn EXCEPT ![c].state = "extra"]
       \/ /\ conn[c].request.kind = "Artifact"
          /\ \E b \in Contents \ {conn[c].bytes} : conn' = [conn EXCEPT ![c].bytes = b]
    /\ UNCHANGED <<World, History, backlog, pc, job, crashes>>

\* The same database under other processes: the command line marks the
\* active key compromised, moves its signing reference, rotates a persona
\* without root, or adopts a recovery.
StoreChanges ==
    \/ /\ store.key # None
       /\ store' = [store EXCEPT !.key = None, !.locator = None,
                                 !.spent = @ \union {store.key}]
    \/ /\ store.key # None
       /\ \E l \in (Locators \union {None}) \ {store.locator} :
            store' = [store EXCEPT !.locator = l]
    \/ \E k \in Keys \ (store.spent \union {store.key}), l \in Locators :
         /\ store.root = None /\ store.key # None
         /\ store' = [store EXCEPT !.key = k, !.locator = l,
                                   !.spent = @ \union {store.key}]
    \/ \E k \in Keys \ (store.spent \union {store.key}), l \in Locators :
         LET old == IF store.journal = <<>> THEN store.root.subject.key
                    ELSE store.journal[HeadSequence].nextKey
         IN  /\ store.root # None /\ HeadSequence < MaxJournal
             /\ store' = [store EXCEPT !.key = k, !.locator = l,
                  !.spent = @ \union {old},
                  !.journal = Append(@, [kind |-> "Recovery", sequence |-> HeadSequence + 1,
                    previous |-> HeadDigest, previousKey |-> old, nextKey |-> k,
                    proof |-> None])]

Outside ==
    /\ outside < MaxOutside
    /\ outside' = outside + 1
    /\ \/ StoreChanges /\ UNCHANGED holds
       \/ \E l \in Locators, k \in Keys \union {None} :
            holds' = [holds EXCEPT ![l] = k] /\ UNCHANGED store
    /\ UNCHANGED <<clock, conn, backlog, pc, job, History, crashes>>

Tick ==
    /\ \E now \in Times : /\ now > clock \/ ClockCanStepBack
                          /\ clock' = now
    /\ UNCHANGED <<store, holds, outside, conn, backlog, pc, job, History, crashes>>

\* A crash forgets the request and closes every connection.
Crash ==
    /\ crashes < MaxCrashes /\ pc # "down"
    /\ crashes' = crashes + 1
    /\ pc' = "down"
    /\ job' = NoJob
    /\ backlog' = <<>>
    /\ conn' = [c \in Connections |->
         IF conn[c].state \in {"queued", "open", "extra"}
         THEN [conn[c] EXCEPT !.state = "closed"] ELSE conn[c]]
    /\ UNCHANGED <<World, History>>

\* main opens the store, binds the socket and enters the accept loop.
Start ==
    /\ pc = "down"
    /\ pc' = "idle"
    /\ UNCHANGED <<World, History, conn, backlog, job, crashes>>

Init ==
    /\ store \in [key : {FirstKey}, locator : Locators, spent : {{}},
                  root : {None}, journal : {<<>>}]
    /\ holds \in [Locators -> Keys]
    /\ holds[store.locator] = FirstKey
    /\ clock = 0
    /\ conn \in [Connections -> [state : {"away"}, request : {None},
                                 bytes : Contents, answer : {None}]]
    /\ backlog = <<>>
    /\ pc = "idle"
    /\ job = NoJob
    /\ approvals = {} /\ released = {} /\ commits = {}
    /\ outside = 0 /\ crashes = 0

\* What the daemon does by itself: every wait in it ends (socket timeouts,
\* the deadline of the approval process, the deadline of the signer).
Daemon ==
    \/ Accept \/ Receive \/ Review \/ Decide \/ Recheck \/ SignPrepared
    \/ PostCheck \/ RecordRoot \/ Respond
    \/ ReviewTransition \/ RecheckTransition \/ SignTransition
    \/ CheckBeforeCommit \/ CommitTransition \/ ConfirmTransition
    \/ ReviewParticipation \/ RecheckParticipation \/ SignParticipation
    \/ CompleteParticipation

Next ==
    \/ Daemon
    \/ \E c \in Connections : (\E r \in Requests : Connect(c, r)) \/ ClientActs(c)
    \/ Outside \/ Tick \/ Crash \/ Start

Spec == Init /\ [][Next]_vars

-----------------------------------------------------------------------------
(* Properties                                                              *)

\* The user was shown this key and this subject for this request and approved.
Consented(id, proof) ==
    \E a \in approvals : a.id = id /\ a.key = proof.by /\ a.subject = proof.subject

\* Nothing is signed, answered or recorded that the user did not approve for
\* that very request, with that very key and subject: not after the client
\* rewrote its file, not after the file behind the signing reference or the
\* active key changed during the prompt.  An answer to a repeated rotation
\* request carries the proof of the earlier, approved one.
ConsentCoversEverySignature ==
    /\ job.proof # None =>
         \/ Consented(job.conn, job.proof)
         \/ job.request.kind = "PersonaTransition"
            /\ \E a \in approvals : Consented(a.id, job.proof)
    /\ \A p \in released : \E a \in approvals :
         /\ Consented(a.id, p.proof)
         /\ a.id = p.id \/ p.proof.subject.kind = "Routine"
    /\ store.root # None => \E a \in approvals : Consented(a.id, store.root)
    /\ \A i \in DOMAIN store.journal : store.journal[i].kind = "Routine" =>
         \E a \in approvals : Consented(a.id, store.journal[i].proof)

\* An answered rotation is a row of the journal and an answered root is the
\* recorded root, whatever happened since, crashes included.
AnswersAreRecorded ==
    \A p \in released :
        /\ p.proof.subject.kind = "Routine" =>
             \E i \in DOMAIN store.journal : store.journal[i].proof = p.proof
        /\ p.proof.subject.kind = "PersonaRoot" => store.root = p.proof

\* A client that had gone away, or broken the protocol, by the time the
\* signature existed has no root recorded and no rotation committed for it.
NoWriteForALeftClient == \A w \in commits : w.waiting

\* A domain proof or a ceremony response that is answered was signed before
\* its expiry, even though signing may outlast the check before it.
ProofsMadeInTime ==
    \A p \in released :
        p.proof.subject.kind \in Expiring =>
            p.signedAt < p.proof.subject.expiresAt

Waiting(c) == c \in DOMAIN conn /\ conn[c].state \in {"queued", "open"}

\* run and serve_one: a client that keeps waiting is answered, or sees its
\* connection closed when the daemon is killed.
EveryClientIsAnswered == \A c \in Connections : Waiting(c) ~> ~Waiting(c)
=============================================================================
