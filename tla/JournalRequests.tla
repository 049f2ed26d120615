--------------------------- MODULE JournalRequests ---------------------------
(***************************************************************************)
(* `continuity root-request` and `continuity transition-request`           *)
(* (crates/a-quo-cli/src/main.rs): clients that ask the consent daemon for *)
(* a proof the daemon journals before it answers, check the answer against *)
(* the journal, and put the proof in a new file.  Clients and daemon may   *)
(* die at any step, answers get lost, the machine may lose its power, and  *)
(* other processes write files and move the journal.  A client stops       *)
(* waiting at the time limit of its socket while the daemon goes on.  A    *)
(* person who got no proof repeats the command.                            *)
(*                                                                         *)
(* The daemon's own work is ConsentDaemon's subject.  Here it declines, or *)
(* journals and answers, or dies before or after it journals.              *)
(***************************************************************************)
EXTENDS Naturals, Sequences, FiniteSets

CONSTANTS
    Clients,
    Paths,          \* output paths
    Keys,           \* next keys a rotation can propose
    RootKey,        \* the key of the root
    Bindings,       \* provider and signer locator of a proposed key
    None,
    MaxRuns,        \* bound: how often commands are started
    MaxFaults       \* bound: crashes and lost answers

VARIABLES
    root,           \* recorded_continuity_root: the journaled root, or None
    journal,        \* the journaled transitions
    ended,          \* the persona is terminally revoked
    shared,         \* the daemon works on the store the clients read
    client,         \* the state of each client process
    queue,          \* requests at the daemon
    answers,        \* what the daemon answered
    file,           \* what each output path holds
    durable,        \* output paths whose directory entry is on disk
    runs,
    faults,
    told            \* reports of success

vars == <<root, journal, ended, shared, client, queue, answers, file, durable, runs,
          faults, told>>
store == <<root, journal, ended, shared>>

Idle == [pc |-> "idle"]

\* A root statement has a fresh anchor and time: one per run of the command.
RootProof(n) == [type |-> "root", statement |-> n]
Transition(key, binding, sequence, kind) ==
    [type |-> "transition", key |-> key, binding |-> binding, sequence |-> sequence,
     kind |-> kind]
Foreign == [type |-> "foreign"]

CurrentKey == IF journal = <<>> THEN RootKey ELSE journal[Len(journal)].key
Journaled == (IF root = None THEN {} ELSE {root}) \cup { journal[i] : i \in DOMAIN journal }

Init ==
    /\ root = None
    /\ journal = <<>>
    /\ ended = FALSE
    /\ shared \in BOOLEAN
    /\ client = [c \in Clients |-> Idle]
    /\ queue = {}
    /\ answers = {}
    /\ file \in [Paths -> {None, Foreign}]
    /\ durable = { p \in Paths : file[p] # None }
    /\ runs = 0
    /\ faults = 0
    /\ told = {}

Goto(c, state) == client' = [client EXCEPT ![c] = state]
Fail(c) == Goto(c, Idle)

-----------------------------------------------------------------------------
(* Output files. *)

\* require_new_output_path.
RequireNewOutputPath(p) == file[p] = None

Write(p, proof, consent) ==
    [pc |-> "write", path |-> p, proof |-> proof, consent |-> consent]

\* write_or_confirm_persona_root_proof and ..._transition_proof: an existing
\* file is only ever compared.
WriteOrConfirm(c) ==
    /\ client[c].pc = "export"
    /\ LET p == client[c].path
           proof == client[c].proof
       IN CASE file[p] = None ->
                 Goto(c, Write(p, proof, client[c].consent))
            [] file[p] = proof ->
                 Goto(c, [pc |-> "report", path |-> p, proof |-> proof,
                          created |-> FALSE, consent |-> client[c].consent])
            [] OTHER -> Fail(c)
    /\ UNCHANGED <<store, queue, answers, file, durable, runs, faults, told>>

\* write_private_bytes_new: a temporary file beside the path gets the bytes
\* and is synced, then takes the name only if nobody has it.
PersistNoclobber(c) ==
    /\ client[c].pc = "write"
    /\ IF RequireNewOutputPath(client[c].path)
         THEN /\ file' = [file EXCEPT ![client[c].path] = client[c].proof]
              /\ Goto(c, [client[c] EXCEPT !.pc = "sync"])
         ELSE Fail(c) /\ UNCHANGED file
    /\ UNCHANGED <<store, queue, answers, durable, runs, faults, told>>

\* The end of write_private_bytes_new: the directory is synced.
SyncDirectory(c) ==
    /\ client[c].pc = "sync"
    /\ durable' = durable \cup {client[c].path}
    /\ Goto(c, [pc |-> "report", path |-> client[c].path, proof |-> client[c].proof,
                created |-> TRUE, consent |-> client[c].consent])
    /\ UNCHANGED <<store, queue, answers, file, runs, faults, told>>

\* print_requested_continuity_root and print_requested_continuity_transition.
\* The root command that found the journal filled says `recovered` when it did
\* not have to create the file.
Report(c) ==
    /\ client[c].pc = "report"
    /\ LET proof == client[c].proof
           recovered == CASE client[c].consent -> FALSE
                          [] ~client[c].consent /\ proof.type = "root" -> ~client[c].created
                          [] OTHER -> TRUE
       IN told' = told \cup {[path |-> client[c].path, proof |-> proof,
                              created |-> client[c].created,
                              consent |-> client[c].consent, recovered |-> recovered]}
    /\ Fail(c)
    /\ UNCHANGED <<store, queue, answers, file, durable, runs, faults>>

-----------------------------------------------------------------------------
(* The requests. *)

Export(p, proof, consent) ==
    [pc |-> "export", path |-> p, proof |-> proof, consent |-> consent]

\* request_continuity_root, up to the request: a root that is journaled is
\* exported; a new one needs a path nobody has.
RequestContinuityRoot(c, p) ==
    /\ client[c].pc = "idle"
    /\ \/ /\ root # None
          /\ Goto(c, Export(p, root, FALSE))
          /\ UNCHANGED runs
       \/ /\ root = None
          /\ runs < MaxRuns
          /\ RequireNewOutputPath(p)
          /\ ~ended
          /\ runs' = runs + 1
          /\ Goto(c, [pc |-> "send", id |-> runs + 1, path |-> p,
                      proof |-> RootProof(runs + 1)])
    /\ UNCHANGED <<store, queue, answers, file, durable, faults, told>>

\* request_continuity_transition, up to the choice of the retry path.
RequestContinuityTransition(c, p, key, binding) ==
    /\ client[c].pc = "idle"
    /\ root # None
    /\ ~ended
    /\ CurrentKey # key
    /\ runs < MaxRuns
    /\ RequireNewOutputPath(p)
    /\ runs' = runs + 1
    /\ Goto(c, [pc |-> "prepare", id |-> runs + 1, path |-> p, key |-> key,
                binding |-> binding, sequence |-> Len(journal), head |-> CurrentKey])
    /\ UNCHANGED <<store, queue, answers, file, durable, faults, told>>

\* The retry path: the proposed key is the head, by a routine transition, with
\* the provider and the locator that were committed.
RetryContinuityTransition(c, p, key, binding) ==
    /\ client[c].pc = "idle"
    /\ root # None
    /\ ~ended
    /\ CurrentKey = key
    /\ journal # <<>>
    /\ journal[Len(journal)].kind = "routine"
    /\ journal[Len(journal)].binding = binding
    /\ Goto(c, Export(p, journal[Len(journal)], FALSE))
    /\ UNCHANGED <<store, queue, answers, file, durable, runs, faults, told>>

KnownKeys == {RootKey} \cup { journal[i].key : i \in DOMAIN journal }

\* validate_routine_rotation_candidate reads the journal again; what it finds
\* must be what the first reading found.
PrepareTransition(c) ==
    /\ client[c].pc = "prepare"
    /\ IF /\ ~ended
          /\ client[c].key \notin KnownKeys
          /\ client[c].sequence = Len(journal)
          /\ client[c].head = CurrentKey
         THEN Goto(c, [pc |-> "send", id |-> client[c].id, path |-> client[c].path,
                       proof |-> Transition(client[c].key, client[c].binding,
                                            client[c].sequence + 1, "routine")])
         ELSE Fail(c)
    /\ UNCHANGED <<store, queue, answers, file, durable, runs, faults, told>>

SendRequest(c) ==
    /\ client[c].pc = "send"
    /\ queue' = queue \cup {[id |-> client[c].id, proof |-> client[c].proof]}
    /\ Goto(c, [client[c] EXCEPT !.pc = "wait"])
    /\ UNCHANGED <<store, answers, file, durable, runs, faults, told>>

\* The answer: a refusal or a lost daemon ends the command; a proof must be
\* the one that was asked for, and the client's own store must have it as its
\* root or at its head.
ReceiveAnswer(c, a) ==
    /\ client[c].pc = "wait"
    /\ a.id = client[c].id
    /\ answers' = answers \ {a}
    /\ IF /\ a.proof = client[c].proof
          /\ \/ a.proof = root
             \/ journal # <<>> /\ a.proof = journal[Len(journal)] /\ ~ended
         THEN Goto(c, Export(client[c].path, a.proof, TRUE))
         ELSE Fail(c)
    /\ UNCHANGED <<store, queue, file, durable, runs, faults, told>>

\* The socket's time limit: the command ends, its request stays with the daemon.
TimeOut(c) ==
    /\ client[c].pc = "wait"
    /\ Fail(c)
    /\ UNCHANGED <<store, queue, answers, file, durable, runs, faults, told>>

-----------------------------------------------------------------------------
(* The daemon. *)

\* What the daemon's store checks in the transaction that journals.
Acceptable(proof) ==
    \/ proof.type = "root" /\ root = None
    \/ /\ proof.type = "transition"
       /\ ~ended
       /\ proof.sequence = Len(journal) + 1
       /\ proof.key \notin KnownKeys

Record(proof) ==
    IF proof.type = "root" THEN root' = proof /\ UNCHANGED journal
                           ELSE journal' = Append(journal, proof) /\ UNCHANGED root

Refuse(r) ==
    /\ r \in queue
    /\ queue' = queue \ {r}
    /\ answers' = answers \cup {[id |-> r.id, proof |-> None]}
    /\ UNCHANGED <<store, client, file, durable, runs, faults, told>>

\* The daemon journals in one transaction and answers after it.
Approve(r) ==
    /\ r \in queue
    /\ queue' = queue \ {r}
    /\ IF shared THEN Acceptable(r.proof) /\ Record(r.proof)
                 ELSE UNCHANGED <<root, journal>>
    /\ answers' = answers \cup {[id |-> r.id, proof |-> r.proof]}
    /\ UNCHANGED <<ended, shared, client, file, durable, runs, faults, told>>

\* It dies before it has answered, before or after the commit.
DaemonDies(r) ==
    /\ faults < MaxFaults
    /\ faults' = faults + 1
    /\ r \in queue
    /\ queue' = queue \ {r}
    /\ \/ UNCHANGED <<root, journal>>
       \/ shared /\ Acceptable(r.proof) /\ Record(r.proof)
    /\ answers' = answers \cup {[id |-> r.id, proof |-> None]}
    /\ UNCHANGED <<ended, shared, client, file, durable, runs, told>>

-----------------------------------------------------------------------------
(* Everything else. *)

\* A recovery transition is committed by another command.
OtherRecovers(key) ==
    /\ root # None
    /\ ~ended
    /\ key \notin KnownKeys
    /\ \E b \in Bindings :
          journal' = Append(journal, Transition(key, b, Len(journal) + 1, "recovery"))
    /\ UNCHANGED <<root, ended, shared, client, queue, answers, file, durable, runs,
                   faults, told>>

OtherEnds ==
    /\ root # None
    /\ ~ended
    /\ ended' = TRUE
    /\ UNCHANGED <<root, journal, shared, client, queue, answers, file, durable, runs,
                   faults, told>>

OtherWrites(p) ==
    /\ file[p] = None
    /\ file' = [file EXCEPT ![p] = Foreign]
    /\ durable' = durable \cup {p}
    /\ UNCHANGED <<store, client, queue, answers, runs, faults, told>>

ClientDies(c) ==
    /\ faults < MaxFaults
    /\ faults' = faults + 1
    /\ client[c].pc # "idle"
    /\ Fail(c)
    /\ UNCHANGED <<store, queue, answers, file, durable, runs, told>>

\* Every process dies; a file whose directory was not synced may be gone.
PowerLoss ==
    /\ faults < MaxFaults
    /\ faults' = faults + 1
    /\ client' = [c \in Clients |-> Idle]
    /\ queue' = {}
    /\ answers' = {}
    /\ \E lost \in SUBSET (Paths \ durable) :
          file' = [p \in Paths |-> IF p \in lost THEN None ELSE file[p]]
    /\ durable' = { p \in Paths : file'[p] # None }
    /\ UNCHANGED <<store, runs, told>>

ClientStep(c) ==
    \/ WriteOrConfirm(c) \/ PersistNoclobber(c) \/ SyncDirectory(c) \/ Report(c)
    \/ PrepareTransition(c) \/ SendRequest(c)
    \/ \E a \in answers : ReceiveAnswer(c, a)
    \/ TimeOut(c)

Requests(c) ==
    \E p \in Paths :
        \/ RequestContinuityRoot(c, p)
        \/ \E k \in Keys, b \in Bindings :
              RequestContinuityTransition(c, p, k, b) \/ RetryContinuityTransition(c, p, k, b)

DaemonStep(r) == Refuse(r) \/ Approve(r) \/ DaemonDies(r)

Others ==
    \/ \E k \in Keys : OtherRecovers(k)
    \/ OtherEnds
    \/ \E p \in Paths : OtherWrites(p)
    \/ \E c \in Clients : ClientDies(c)
    \/ PowerLoss

Next ==
    \/ \E c \in Clients : ClientStep(c) \/ Requests(c)
    \/ \E r \in queue : DaemonStep(r)
    \/ Others

Spec == Init /\ [][Next]_vars

-----------------------------------------------------------------------------
(* Properties. *)

\* A proof in an output file is journaled in the store the client reads,
\* whatever the daemon answered and whoever died in between.
OutputIsJournaled ==
    \A p \in Paths : file[p] \notin {None, Foreign} => file[p] \in Journaled

\* A command that created its file and reported success has a file that stays,
\* through every crash and loss of power.
CreatedFileStays == \A t \in told : t.created => file[t.path] = t.proof

=============================================================================
