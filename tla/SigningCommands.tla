-------------------------- MODULE SigningCommands --------------------------
(***************************************************************************)
(* The commands of a-quo-cli that make and verify a proof of a file or of  *)
(* the control of a domain: sign (with a label or with a registered        *)
(* persona), request-sign, domain request-proof, verify and domain verify. *)
(*                                                                         *)
(* One command runs at a time.  Between any two of its reads other         *)
(* processes write the persona database, the file and the key files, the   *)
(* clock moves, and the command may be killed.  The daemon that the two    *)
(* request commands ask is only trusted as far as they trust it: it        *)
(* returns any proof whatever, or a rejection.                             *)
(*                                                                         *)
(* A proof is [subject, key]; its subject says which bytes, or which       *)
(* domain statement, were signed and which key the statement names.  No    *)
(* operation of the store changes a persona's label, so labels are left    *)
(* out.  Persona P is the one the user names; key owners are fixed.        *)
(***************************************************************************)
EXTENDS Integers, Sequences

CONSTANTS
    Keys, OtherKeys,   \* keys of P; keys that belong to another persona
    Contents,          \* what the file may hold
    Days,              \* lifetimes a user may ask for
    MaxDays,           \* 30 in domain_validity_seconds
    Skew,              \* DOMAIN_CLOCK_SKEW_SECONDS
    MaxTime,           \* bounds: clock readings,
    MaxCommands,       \*   commands run one after the other,
    MaxOutside,        \*   steps of other processes
    None

AllKeys == Keys \cup OtherKeys

VARIABLES
    exists,     \* whether there is a database at the path
    store,      \* [keys, disposition, ref, events]: what it says of P
    lock,       \* the immediate transaction of sign is open
    artifact,   \* the file's bytes
    keyFiles,   \* [public, private]: the key in each of the user's two files
    out,        \* the proof files: [artifact, domain], each None or a proof
    clock,
    pc, job,    \* the running command
    printed,    \* what the last command printed, or None
    commands, outside

files == <<artifact, keyFiles>>
world == <<exists, store, files, clock, outside>>
vars == <<world, lock, out, pc, job, printed, commands>>

NoJob == [command |-> None, explicit |-> FALSE, key |-> None, before |-> None,
          statement |-> None, proof |-> None, view |-> None]

Init ==
    /\ exists \in BOOLEAN
    /\ \E k \in Keys, d \in {"Operational", "EvidenceOnly", "Archived"} :
          store = IF exists
                  THEN [keys |-> [j \in Keys |-> IF j = k THEN "active" ELSE "unknown"],
                        disposition |-> d, ref |-> d = "Operational",
                        events |-> <<[key |-> k, type |-> "enrolled"]>>]
                  ELSE [keys |-> [j \in Keys |-> "unknown"], disposition |-> "Operational",
                        ref |-> FALSE, events |-> << >>]
    /\ lock = FALSE
    /\ artifact \in Contents
    /\ keyFiles \in {[public |-> k, private |-> k] : k \in AllKeys}
    /\ out = [artifact |-> None, domain |-> None]
    /\ clock = 0
    /\ pc = "idle" /\ job = NoJob
    /\ printed = None
    /\ commands = 0 /\ outside = 0

-----------------------------------------------------------------------------
(* What the commands ask the database                                      *)

\* lookup_key, also of a key of the other persona, which is operational.
LookupKey(k) ==
    IF ~exists THEN None
    ELSE IF k \in OtherKeys THEN [persona |-> "Q", disposition |-> "Operational",
                                  status |-> "active"]
    ELSE IF store.keys[k] = "unknown" THEN None
    ELSE [persona |-> "P", disposition |-> store.disposition, status |-> store.keys[k]]

\* The conditions of sign, which with_active_key_authorization repeats.
Authorized(k) == LookupKey(k) = [persona |-> "P", disposition |-> "Operational",
                                 status |-> "active"]

\* active_signer_for_persona.
ActiveSigner ==
    IF exists /\ store.disposition = "Operational" /\ store.ref
       /\ \E k \in Keys : store.keys[k] = "active"
    THEN CHOOSE k \in Keys : store.keys[k] = "active"
    ELSE None

\* The latest event that fits the key's status.
RelevantStatusEvent(record, k, events) ==
    LET fits(e) == /\ e.key = k
                   /\ CASE record.status = "active" -> e.type \in {"rotated_in", "enrolled"}
                        [] OTHER -> e.type = record.status
        mine == SelectSeq(events, fits)
    IN IF mine = << >> THEN None ELSE mine[Len(mine)]

\* lookup_key_with_history: the record and its events in one snapshot.
LookupKeyWithHistory(k) ==
    IF LookupKey(k) = None THEN [registry |-> "unrecognized"]
    ELSE [registry |-> "recognized", record |-> LookupKey(k),
          event |-> IF k \in OtherKeys THEN None
                    ELSE RelevantStatusEvent(LookupKey(k), k, store.events)]

\* local_key_evidence: a store that was not asked for and is not there is not
\* created; one that was asked for must be there.
LocalKeyEvidence(k, explicit) ==
    IF exists THEN LookupKeyWithHistory(k)
    ELSE [registry |-> IF explicit THEN "error" ELSE "not_checked"]

-----------------------------------------------------------------------------
(* Proofs                                                                  *)

ArtifactSubject(content, k) == [artifact |-> content, key |-> k]
DomainSubject(nonce, issued, expires, k) ==
    [nonce |-> nonce, issuedAt |-> issued, expiresAt |-> expires, key |-> k]
IsDomain(subject) == "nonce" \in DOMAIN subject

\* create_sshsig_proof verifies the signature with the public key it names.
CreatedProof(content) ==
    IF keyFiles.public = keyFiles.private
    THEN [subject |-> ArtifactSubject(content, keyFiles.public), key |-> keyFiles.private]
    ELSE None

VerifyArtifactProof(content, p) ==
    /\ ~IsDomain(p.subject)
    /\ p.subject = ArtifactSubject(content, p.key)

\* verify_domain_control_proof at clock reading now.
VerifyDomainProof(p, now) ==
    /\ IsDomain(p.subject)
    /\ p.subject.key = p.key
    /\ now + Skew >= p.subject.issuedAt
    /\ now - Skew <= p.subject.expiresAt

\* What the daemon may answer: None for a rejection, or a proof of anything by
\* anyone, among them this request's statement and those of others.
DaemonAnswers ==
    LET subjects ==
            {ArtifactSubject(c, k) : c \in Contents, k \in AllKeys}
            \cup {DomainSubject(n, 0, MaxTime, k) : n \in 0 .. commands - 1, k \in AllKeys}
            \cup (IF job.statement = None THEN {} ELSE {job.statement})
    IN {None} \cup {[subject |-> s, key |-> k] : s \in subjects, k \in AllKeys}

-----------------------------------------------------------------------------
(* Steps of a command                                                      *)

Goto(label, newJob) ==
    /\ pc' = label /\ job' = newJob
    /\ UNCHANGED <<world, lock, out, printed, commands>>

Fail ==
    /\ pc' = "idle" /\ job' = NoJob
    /\ lock' = FALSE
    /\ printed' = [outcome |-> "error"]
    /\ UNCHANGED <<world, out, commands>>

\* A proof file that was created and not yet filled; it parses as nothing.
Partial == [subject |-> [partial |-> TRUE], key |-> None]

\* write_proof_new creates the file, never replacing one, and then fills it.
WriteProofNew(field) ==
    IF out[field] # None THEN Fail
    ELSE /\ out' = [out EXCEPT ![field] = Partial]
         /\ pc' = "fill"
         /\ UNCHANGED <<world, lock, job, printed, commands>>

FillProof ==
    /\ pc = "fill" /\ pc' = "report"
    /\ out' = [out EXCEPT ![IF job.command = "request domain" THEN "domain"
                           ELSE "artifact"] = job.proof]
    /\ UNCHANGED <<world, lock, job, printed, commands>>

Start(command) ==
    /\ pc = "idle" /\ commands < MaxCommands
    /\ commands' = commands + 1
    /\ printed' = None
    /\ pc' = command
    /\ \E explicit \in BOOLEAN :
          job' = [NoJob EXCEPT !.command = command, !.explicit = explicit]
    /\ UNCHANGED <<world, lock, out>>

\* sign --persona: a self-asserted label needs no database.
SignWithLabel ==
    /\ pc = "sign with label"
    /\ IF CreatedProof(artifact) = None THEN Fail
       ELSE Goto("write", [job EXCEPT !.proof = CreatedProof(artifact)])

\* sign --persona-id reads the public key, opens the database, which it
\* creates if need be, and looks the key up.
SignRegistered ==
    /\ pc = "sign registered"
    /\ IF Authorized(keyFiles.public)
       THEN Goto("authorize", [job EXCEPT !.key = keyFiles.public])
       ELSE /\ exists' = TRUE
            /\ pc' = "idle" /\ job' = NoJob /\ printed' = [outcome |-> "error"]
            /\ UNCHANGED <<store, files, clock, outside, lock, out, commands>>

SlipAuthorizeTrustsTheLookup ==
    /\ pc = "authorize"
    /\ lock' = TRUE /\ pc' = "create"
    /\ UNCHANGED <<world, out, job, printed, commands>>

\* with_active_key_authorization: everything again, inside the transaction.
Authorize ==
    /\ pc = "authorize"
    /\ IF Authorized(job.key)
       THEN /\ lock' = TRUE /\ pc' = "create"
            /\ UNCHANGED <<world, out, job, printed, commands>>
       ELSE Fail

\* The closure: create_sshsig_proof reads the public key file again, so its
\* statement is compared with the key that was authorized.
CreateRegistered ==
    /\ pc = "create"
    /\ LET p == CreatedProof(artifact) IN
       IF p # None /\ p.subject.key = job.key
       THEN Goto("write", [job EXCEPT !.proof = p])
       ELSE Fail

\* The proof is written before the transaction is committed.
WriteSigned ==
    /\ pc = "write" /\ job.command \in {"sign with label", "sign registered"}
    /\ WriteProofNew("artifact")

\* request-sign: the expected signer, and the open file's digest.
RequestSign ==
    /\ pc = "request sign"
    /\ IF ActiveSigner = None THEN Fail
       ELSE Goto("await", [job EXCEPT !.key = ActiveSigner, !.before = artifact])

\* domain_validity_seconds, before anything is read.
ValidityDays(days) == days \in 1 .. MaxDays

RequestDomainProof ==
    /\ pc = "request domain"
    /\ \E days \in Days :
          IF ~ValidityDays(days) \/ ActiveSigner = None THEN Fail
          ELSE Goto("await",
                    [job EXCEPT !.key = ActiveSigner,
                                !.statement = DomainSubject(commands, clock, clock + days,
                                                            ActiveSigner)])

\* receive_sign_response.
Await ==
    /\ pc = "await"
    /\ \E answer \in DaemonAnswers :
          IF answer = None THEN Fail
          ELSE Goto("check", [job EXCEPT !.proof = answer])

\* The file is read again, and the proof is of what is there now and was there
\* before, by the expected key.
CheckRequested ==
    /\ pc = "check" /\ job.command = "request sign"
    /\ IF /\ artifact = job.before
          /\ VerifyArtifactProof(artifact, job.proof)
          /\ job.proof.key = job.key
       THEN Goto("write", job)
       ELSE Fail

\* The exact statement that was submitted, still inside its window.  With the
\* statement its DNS publication is the reviewed one.
CheckRequestedDomain ==
    /\ pc = "check" /\ job.command = "request domain"
    /\ IF /\ job.proof.subject = job.statement
          /\ VerifyDomainProof(job.proof, clock)
          /\ job.proof.key = job.key
       THEN Goto("write", job)
       ELSE Fail

WriteRequested ==
    /\ pc = "write" /\ job.command \in {"request sign", "request domain"}
    /\ WriteProofNew(IF job.command = "request sign" THEN "artifact" ELSE "domain")

\* The transaction ends, and the proof's contents are printed.
Report ==
    /\ pc = "report"
    /\ lock' = FALSE
    /\ pc' = "idle" /\ job' = NoJob
    /\ printed' = [outcome |-> "written"]
    /\ UNCHANGED <<world, out, commands>>

\* verify and domain verify: the proof first, without the database.
VerifyFile ==
    /\ pc = "verify"
    /\ LET p == out.artifact IN
       IF p = None \/ (p # None /\ ~VerifyArtifactProof(artifact, p)) THEN Fail
       ELSE Goto("look up", [job EXCEPT !.key = p.key])

VerifyDomain ==
    /\ pc = "verify domain"
    /\ LET p == out.domain IN
       IF p = None \/ (p # None /\ ~VerifyDomainProof(p, clock)) THEN Fail
       ELSE Goto("look up", [job EXCEPT !.key = p.key])

LookUp ==
    /\ pc = "look up"
    /\ LET view == LocalKeyEvidence(job.key, job.explicit) IN
       IF view.registry = "error" THEN Fail
       ELSE /\ pc' = "print"
            /\ job' = [job EXCEPT !.view = view]
            /\ UNCHANGED <<world, lock, out, printed, commands>>

\* print_local_evidence and local_json.
PrintVerification ==
    /\ pc = "print"
    /\ pc' = "idle" /\ job' = NoJob
    /\ printed' = [outcome |-> "verified", key |-> job.key, view |-> job.view]
    /\ UNCHANGED <<world, lock, out, commands>>

\* Killed: SQLite rolls the transaction back.
Killed ==
    /\ pc # "idle"
    /\ pc' = "idle" /\ job' = NoJob /\ lock' = FALSE
    /\ UNCHANGED <<world, out, printed, commands>>

CommandNames ==
    {"sign with label", "sign registered", "request sign", "request domain",
     "verify", "verify domain"}

Command ==
    \/ \E c \in CommandNames : Start(c)
    \/ SignWithLabel \/ SignRegistered \/ Authorize \/ CreateRegistered \/ WriteSigned
    \/ RequestSign \/ RequestDomainProof \/ Await \/ CheckRequested \/ CheckRequestedDomain
    \/ WriteRequested \/ FillProof \/ Report
    \/ VerifyFile \/ VerifyDomain \/ LookUp \/ PrintVerification

-----------------------------------------------------------------------------
(* Other processes.  Whether P has a recorded root is left open, so either  *)
(* kind of persona's operations may happen.                                *)

\* Other writers wait for the open transaction.
StoreChanges(newStore) ==
    /\ exists /\ ~lock /\ outside < MaxOutside
    /\ store' = newStore
    /\ outside' = outside + 1
    /\ UNCHANGED <<exists, files, clock, lock, out, pc, job, printed, commands>>

\* rotate_key: both events in one transaction; the new key has no reference.
Rotate ==
    \E old, new \in Keys, reason \in {"retired", "compromised"} :
        /\ store.disposition = "Operational"
        /\ store.keys[old] = "active" /\ store.keys[new] = "unknown"
        /\ StoreChanges([store EXCEPT
               !.keys = [@ EXCEPT ![old] = reason, ![new] = "active"], !.ref = FALSE,
               !.events = @ \o <<[key |-> old, type |-> reason],
                                 [key |-> new, type |-> "rotated_in"]>>])

\* mark_key_compromised, of a key without a recorded root.
Compromise ==
    \E k \in Keys :
        /\ store.disposition # "TerminallyRevoked"
        /\ \/ store.keys[k] = "retired"
           \/ store.keys[k] = "active" /\ store.disposition # "EvidenceOnly"
        /\ StoreChanges([store EXCEPT
               !.keys[k] = "compromised", !.ref = @ /\ store.keys[k] # "active",
               !.events = Append(@, [key |-> k, type |-> "compromised"])])

\* commit_terminal_persona_revocation.
Revoke ==
    \E k \in Keys, reason \in {"retired", "compromised"} :
        /\ store.disposition = "Operational" /\ store.keys[k] = "active"
        /\ StoreChanges([store EXCEPT
               !.keys[k] = reason, !.ref = FALSE, !.disposition = "TerminallyRevoked",
               !.events = Append(@, [key |-> k, type |-> reason])])

Bind ==
    /\ store.disposition = "Operational" /\ ~store.ref
    /\ \E k \in Keys : store.keys[k] = "active"
    /\ StoreChanges([store EXCEPT !.ref = TRUE])

Unbind == store.ref /\ StoreChanges([store EXCEPT !.ref = FALSE])

FilesChange ==
    /\ outside < MaxOutside
    /\ \/ artifact' \in Contents \ {artifact} /\ UNCHANGED keyFiles
       \/ keyFiles' \in {[public |-> k, private |-> j] : k, j \in AllKeys} \ {keyFiles}
          /\ UNCHANGED artifact
    /\ outside' = outside + 1
    /\ UNCHANGED <<exists, store, clock, lock, out, pc, job, printed, commands>>

Tick ==
    /\ clock < MaxTime /\ clock' = clock + 1
    /\ UNCHANGED <<exists, store, files, outside, lock, out, pc, job, printed,
                   commands>>

Next ==
    \/ Command \/ Killed
    \/ Rotate \/ Compromise \/ Revoke \/ Bind \/ Unbind \/ FilesChange \/ Tick

Spec == Init /\ [][Next]_vars

-----------------------------------------------------------------------------
(* Properties                                                              *)

\* sign --persona-id: at the moment the proof is in its file, the key that made
\* the proof is the active key of that operational persona, whatever other
\* processes did to the database and to the key files since the command looked.
WrittenUnderAuthority ==
    pc = "fill" /\ out' # out /\ job.command = "sign registered" =>
        Authorized(out'.artifact.key)

\* request-sign: whatever the daemon returned and however often the file was
\* written meanwhile, the proof that is written is of the bytes the file held
\* when the user asked, by the key that was the persona's then.
WrittenIsWhatWasAsked ==
    pc = "fill" /\ out' # out /\ job.command = "request sign" =>
        out'.artifact = [subject |-> ArtifactSubject(job.before, job.key), key |-> job.key]

\* domain request-proof: only a proof of this invocation's own statement is
\* written, and never one whose window, but for the skew, closed while the user
\* thought.
DomainProofIsItsOwn ==
    /\ pc = "fill" /\ out'.domain # out.domain => out'.domain.subject.nonce = commands
    /\ pc = "check" /\ pc' = "write" /\ job.command = "request domain" =>
          clock <= job.proof.subject.expiresAt + Skew

\* verify: the status printed for a key and the lifecycle record printed beside
\* it belong together, whatever happened to the key while the command ran.
StatusIsExplained ==
    pc = "print" /\ job.view.registry = "recognized" /\ job.key \in Keys =>
        /\ job.view.event # None
        /\ job.view.event.type \in
              IF job.view.record.status = "active" THEN {"enrolled", "rotated_in"}
              ELSE {job.view.record.status}
=============================================================================
