--------------------------- MODULE BackupCommands ---------------------------
(***************************************************************************)
(* The persona backup commands of a-quo-cli: backup-export, -inspect,      *)
(* -compare, -import, -activate-direct, -activate-recovery and             *)
(* -hydrate-terminal, run by several processes beside each other, of which *)
(* any may be killed between two steps.                                    *)
(*                                                                         *)
(* What makes a backup valid, and that a sealed receipt stays valid, is    *)
(* PersonaArchive's subject; here a file is valid or not.  What is added   *)
(* is the command line's part: options become pins, a signer is optional   *)
(* on a retry, answers get lost, files are replaced between two commands,  *)
(* and what is printed goes beyond what the store returned.                *)
(*                                                                         *)
(* A digest is what it is the digest of: an archive, its root, a policy,   *)
(* or for a transition the chain up to it.  An archive is                  *)
(* [root, chain, policies, terminal, tip]; the last transition of a        *)
(* terminal one is the revocation.                                         *)
(***************************************************************************)
EXTENDS Integers, Sequences, TLC

CONSTANTS
    Processes,
    Backups,       \* backup files: [valid, archived, archive]
    Supplied,      \* archives whose proofs a user has as separate files
    Locators,      \* where signers may be
    Keys,
    Next1,         \* the key that recoveries introduce
    MaxCommands, MaxOutside,   \* bounds: commands, steps of others
    None

ASSUME None \notin Backups \cup Locators \cup Keys

VARIABLES
    file,          \* the backup file, or None
    db,            \* the persona in the database, see NoPersona
    signers,       \* the key that the signer at each locator holds
    proc,          \* each process: [pc, args, pins, found, answer, retry]
    told,          \* what a process printed in the last step, or None
    commands, outside

vars == <<file, db, signers, proc, told, commands, outside>>
bounds == <<commands, outside>>

NoPersona == [known |-> FALSE, archived |-> FALSE, archive |-> None, live |-> None,
              receipt |-> None]
Idle == [pc |-> "idle", args |-> None, pins |-> None, found |-> None, answer |-> None,
         retry |-> FALSE]

Archives == {b.archive : b \in Backups} \ {None}

Init ==
    /\ db \in {NoPersona, [NoPersona EXCEPT !.known = TRUE]}
              \cup {[NoPersona EXCEPT !.known = TRUE, !.live = a] : a \in Supplied}
              \cup {[NoPersona EXCEPT !.known = TRUE, !.archive = a] : a \in Archives}
    /\ file \in IF db.known THEN {None} ELSE Backups
    /\ signers \in {[l \in Locators |-> k] : k \in Keys}
    /\ proc = [p \in Processes |-> Idle]
    /\ told = None
    /\ commands = 0 /\ outside = 0

-----------------------------------------------------------------------------
(* Options and pins *)

\* PersonaContinuityCheckpoint: the root has no digest.
Checkpoint(chain, n) == [sequence |-> n, digest |-> IF n = 0 THEN None ELSE SubSeq(chain, 1, n)]
EffectiveHead(a) == Checkpoint(a.chain, Len(a.chain))
LatestPolicy(a) ==
    IF a.policies = << >> THEN None
    ELSE [version |-> Len(a.policies), digest |-> a.policies[Len(a.policies)]]

\* What a user types who knows archive a up to its n-th transition.
OptionsFor(a, n) ==
    [archive |-> a, root |-> a.root, sequence |-> n, digest |-> Checkpoint(a.chain, n).digest,
     noPolicy |-> LatestPolicy(a) = None,
     version |-> IF LatestPolicy(a) = None THEN None ELSE LatestPolicy(a).version,
     policy |-> IF LatestPolicy(a) = None THEN None ELSE LatestPolicy(a).digest,
     key |-> a.tip]

\* Well-formed options, and options with a part missing or one too many.
RightOptions == UNION {{OptionsFor(a, n) : n \in {0, Len(a.chain)}} : a \in Archives}
WrongOptions ==
    UNION {{[o EXCEPT !.digest = None], [o EXCEPT !.version = None],
            [o EXCEPT !.noPolicy = TRUE]} : o \in RightOptions}

\* required_continuity_checkpoint
ValidCheckpoint(o) == (o.sequence = 0) <=> (o.digest = None)

\* backup_continuity_expected_pins: either no policy is expected, or one with
\* its version and its digest.
ValidPolicyOptions(o) ==
    \/ o.noPolicy /\ o.version = None /\ o.policy = None
    \/ ~o.noPolicy /\ o.version # None /\ o.policy # None

\* Only direct activation has an option for the current key.
Pins(o, command) ==
    IF ~ValidCheckpoint(o) \/ ~ValidPolicyOptions(o) THEN None
    ELSE [archive |-> o.archive, root |-> o.root,
          head |-> [sequence |-> o.sequence, digest |-> o.digest],
          policy |-> IF o.noPolicy THEN None ELSE [version |-> o.version, digest |-> o.policy],
          key |-> IF command = "direct" THEN o.key ELSE None]

\* compare_persona_backup_continuity: root and policy must match, the head's
\* relation is reported.
ComparableWith(a, pins) == a.root = pins.root /\ LatestPolicy(a) = pins.policy
HeadRelation(a, pins) ==
    LET n == pins.head.sequence IN
    CASE Len(a.chain) < n -> "ShorterThanExpectedInconclusive"
      [] Len(a.chain) >= n /\ Checkpoint(a.chain, n) # pins.head -> "DivergentAtOrBeforePin"
      [] Len(a.chain) = n /\ Checkpoint(a.chain, n) = pins.head -> "Exact"
      [] OTHER -> "ExtensionBeyondPin"

-----------------------------------------------------------------------------
(* The database *)

Quarantined(d) == d.archive # None /\ d.live = None

\* persona_authority_disposition_in
Disposition(d) ==
    IF Quarantined(d) THEN "EvidenceOnly"
    ELSE IF (IF d.live = None THEN FALSE ELSE d.live.terminal) THEN "TerminallyRevoked"
    ELSE IF d.archived THEN "Archived" ELSE "Operational"

\* What the materializations ask of the retained archive and of the pins.
Source(d, pins) ==
    /\ d.known /\ ~d.archived /\ Quarantined(d) /\ d.receipt = None
    /\ d.archive = pins.archive
    /\ ComparableWith(d.archive, pins)
    /\ HeadRelation(d.archive, pins) = "Exact"

\* verified_direct_activation_source_in, verified_recovery_activation_source_in
\* and verified_terminal_hydration_source_in.  A recovery proof is made for one
\* archive, whose pinned head it extends.
SourceFor(d, job) ==
    /\ Source(d, job.pins)
    /\ CASE job.args.command = "direct" -> ~d.archive.terminal /\ d.archive.tip = job.pins.key
         [] job.args.command = "recovery" ->
               job.pins.policy # None /\ ~d.archive.terminal /\ job.args.proof = d.archive
         [] OTHER -> job.pins.policy # None /\ d.archive.terminal

\* The key whose custody is proved before an activation.
ResultKey(job) ==
    CASE job.args.command = "direct" -> job.pins.key
      [] job.args.command = "recovery" -> Next1
      [] OTHER -> None

\* The head after the materialization: a recovery appends one transition.
ResultHead(job) ==
    IF job.args.command # "recovery" THEN job.pins.head
    ELSE [sequence |-> job.pins.head.sequence + 1,
          digest |-> Append(SubSeq(job.pins.archive.chain, 1, job.pins.head.sequence), Next1)]

\* The live journal that the materialization writes.
LiveResult(job) ==
    IF job.args.command = "recovery"
    THEN [job.pins.archive EXCEPT !.chain = Append(@, Next1), !.tip = Next1]
    ELSE job.pins.archive

Receipt(job) ==
    [method |-> job.args.command, pins |-> job.pins, proof |-> job.args.proof,
     signer |-> job.args.signer, resultHead |-> ResultHead(job), resultKey |-> ResultKey(job)]

SlipSignerMustBeNamed(job, r) ==
    /\ r.method = job.args.command /\ r.proof = job.args.proof
    /\ r.pins = job.pins
    /\ job.args.signer = r.signer

\* require_*_request_matches_receipt: every pin, the exact recovery proof and,
\* if one is named, the signer.
RequestMatches(job, r) ==
    /\ r.method = job.args.command /\ r.proof = job.args.proof
    /\ r.pins = job.pins
    /\ job.args.signer \in {None, r.signer}

\* The receipt that a caller gets, with the disposition of that moment.
PublicReceipt(d, replayed, challenged) ==
    [receipt |-> d.receipt, replayed |-> replayed, challenged |-> challenged,
     disposition |-> Disposition(d)]

-----------------------------------------------------------------------------
(* Steps of a process *)

Continue(p, job) == proc' = [proc EXCEPT ![p] = job] /\ told' = None /\ UNCHANGED bounds
Report(p, what) ==
    /\ told' = [process |-> p, command |-> proc[p].args.command] @@ what
    /\ proc' = [proc EXCEPT ![p] = Idle]
    /\ UNCHANGED bounds
Fail(p) == Report(p, [outcome |-> "error"]) /\ UNCHANGED <<file, db, signers>>

At(p, label) == proc[p].pc = label

Materializations == {"direct", "recovery", "hydrate"}

\* Refusals before anything is read.  Provider and locator come together, a
\* recovery pins a policy, a hydration also a head beyond the root.
RefusedDirect(args, pins) == args.signer = "half"
RefusedRecovery(args, pins) == args.signer = "half" \/ pins.policy = None
RefusedHydration(args, pins) == pins.policy = None \/ pins.head.sequence = 0

\* Recovery proofs exist for the archives that are not terminal.
Arguments ==
    [command : {"compare", "hydrate"}, options : RightOptions, signer : {None}, proof : {None}]
    \cup [command : {"direct"}, options : RightOptions,
          signer : Locators \cup {None, "half"}, proof : {None}]
    \cup [command : {"recovery"}, options : RightOptions,
          signer : Locators \cup {None, "half"}, proof : {a \in Archives : ~a.terminal}]
    \cup [command : Materializations \cup {"compare"}, options : WrongOptions,
          signer : {None}, proof : {None}]
    \cup [command : {"inspect", "import"}, options : {None}, signer : {None}, proof : {None}]
    \cup [command : {"export"}, options : {None}, signer : {None},
          proof : Supplied \cup {None}]

Refused(args, pins) ==
    CASE args.options = None -> FALSE
      [] args.options # None /\ pins = None -> TRUE
      [] args.command = "direct" /\ pins # None -> RefusedDirect(args, pins)
      [] args.command = "recovery" /\ pins # None -> RefusedRecovery(args, pins)
      [] args.command = "hydrate" /\ pins # None -> RefusedHydration(args, pins)
      [] OTHER -> FALSE

\* The request that was sealed, again, and the signer named or not.
IsRetry(job) ==
    /\ db.receipt # None /\ job.pins # None
    /\ <<job.args.command, job.pins, job.args.proof>>
          = <<db.receipt.method, db.receipt.pins, db.receipt.proof>>
    /\ job.args.signer \in {None, db.receipt.signer}

Start(p) ==
    /\ At(p, "idle") /\ commands < MaxCommands
    /\ commands' = commands + 1
    /\ \E args \in Arguments :
          LET pins == IF args.options = None THEN None ELSE Pins(args.options, args.command)
              job == [Idle EXCEPT !.pc = IF args.command \in Materializations
                                         THEN "replay" ELSE args.command,
                                  !.args = args, !.pins = pins]
          IN IF Refused(args, pins)
             THEN /\ told' = [process |-> p, command |-> args.command, outcome |-> "error"]
                  /\ UNCHANGED proc
             ELSE /\ told' = None
                  /\ proc' = [proc EXCEPT ![p] =
                        [job EXCEPT !.retry = IsRetry(job)]]
    /\ UNCHANGED <<file, db, signers, outside>>

\* backup-inspect and backup-compare read the file and nothing else.
Inspect(p) ==
    /\ At(p, "inspect")
    /\ IF file = None THEN Fail(p)
       ELSE IF ~file.valid THEN Fail(p)
       ELSE /\ Report(p, [outcome |-> "inspected", archive |-> file.archive])
            /\ UNCHANGED <<file, db, signers>>

Compare(p) ==
    /\ At(p, "compare")
    /\ LET a == IF file = None THEN None ELSE IF file.valid THEN file.archive ELSE None
           pins == proc[p].pins
       IN IF a = None THEN Fail(p)
          ELSE IF ~ComparableWith(a, pins) THEN Fail(p)
          ELSE /\ Report(p, [outcome |-> "compared", archive |-> a, pins |-> pins,
                            relation |-> HeadRelation(a, pins)])
               /\ UNCHANGED <<file, db, signers>>

\* backup-import verifies the file before it opens the database, and prints a
\* disposition that it derives from what the import returned.
ReadImport(p) ==
    /\ At(p, "import")
    /\ IF file = None THEN Fail(p)
       ELSE IF ~file.valid THEN Fail(p)
       ELSE Continue(p, [proc[p] EXCEPT !.pc = "store", !.found = file])
            /\ UNCHANGED <<file, db, signers>>

Import(p) ==
    /\ At(p, "store")
    /\ IF db.known THEN Fail(p)
       ELSE /\ db' = [NoPersona EXCEPT !.known = TRUE, !.archived = proc[p].found.archived,
                                       !.archive = proc[p].found.archive]
            /\ Continue(p, [proc[p] EXCEPT !.pc = "imported"])
            /\ UNCHANGED <<file, signers>>

DerivedDisposition(b) ==
    IF b.archive # None THEN "EvidenceOnly"
    ELSE IF b.archived THEN "Archived" ELSE "Operational"

ReportImport(p) ==
    /\ At(p, "imported")
    /\ Report(p, [outcome |-> "imported", disposition |-> DerivedDisposition(proc[p].found)])
    /\ UNCHANGED <<file, db, signers>>

\* The persona's own continuity, live before imported, or else the supplied one.
ExportedArchive(d, supplied) ==
    IF d.live # None THEN d.live
    ELSE IF d.archive # None THEN d.archive ELSE supplied

SuppliedConflicts(d, supplied) == supplied # None /\ (d.live # None \/ d.archive # None)

\* backup-export: the transaction, and then the file, which is never replaced.
Export(p) ==
    /\ At(p, "export")
    /\ LET supplied == proc[p].args.proof IN
       IF ~db.known \/ SuppliedConflicts(db, supplied) THEN Fail(p)
       ELSE /\ Continue(p, [proc[p] EXCEPT !.pc = "write",
                              !.found = [valid |-> TRUE, archived |-> db.archived,
                                         archive |-> ExportedArchive(db, supplied)]])
            /\ UNCHANGED <<file, db, signers>>

WriteExport(p) ==
    /\ At(p, "write")
    /\ IF file # None THEN Fail(p)
       ELSE /\ file' = proc[p].found
            /\ Report(p, [outcome |-> "exported"])
            /\ UNCHANGED <<db, signers>>

-----------------------------------------------------------------------------
(* Activation and hydration *)

\* An answer from the sealed receipt, or a refusal of a request that differs.
AnswerFromReceipt(p, challenged) ==
    IF RequestMatches(proc[p], db.receipt)
    THEN /\ Continue(p, [proc[p] EXCEPT !.pc = "print",
                           !.answer = PublicReceipt(db, TRUE, challenged)])
         /\ UNCHANGED <<file, db, signers>>
    ELSE Fail(p)

\* The lookup before anything else; after it a first activation needs a signer.
LookForReceipt(p) ==
    /\ At(p, "replay")
    /\ IF db.receipt # None THEN AnswerFromReceipt(p, FALSE)
       ELSE IF proc[p].args.command # "hydrate" /\ proc[p].args.signer = None THEN Fail(p)
       ELSE Continue(p, [proc[p] EXCEPT !.pc = "preflight"]) /\ UNCHANGED <<file, db, signers>>

\* The source is verified outside the transaction.
Preflight(p) ==
    /\ At(p, "preflight")
    /\ IF ~SourceFor(db, proc[p]) THEN Fail(p)
       ELSE /\ Continue(p, [proc[p] EXCEPT
                   !.pc = IF proc[p].args.command = "hydrate" THEN "commit" ELSE "challenge"])
            /\ UNCHANGED <<file, db, signers>>

\* prove_live_signer_binding
Challenge(p) ==
    /\ At(p, "challenge")
    /\ IF signers[proc[p].args.signer] # ResultKey(proc[p]) THEN Fail(p)
       ELSE /\ Continue(p, [proc[p] EXCEPT !.pc = "commit"])
            /\ UNCHANGED <<file, db, signers>>

\* The immediate transaction: the receipt is looked for again, and the source
\* verified again.
Commit(p) ==
    /\ At(p, "commit")
    /\ LET job == proc[p]
           challenged == job.args.command # "hydrate"
           after == [db EXCEPT !.live = LiveResult(job), !.receipt = Receipt(job)]
       IN IF db.receipt # None THEN AnswerFromReceipt(p, challenged)
          ELSE IF ~SourceFor(db, job) THEN Fail(p)
          ELSE /\ db' = after
               /\ Continue(p, [job EXCEPT !.pc = "print",
                                 !.answer = PublicReceipt(after, FALSE, challenged)])
               /\ UNCHANGED <<file, signers>>

\* What the text output of a recovery and of a hydration unwraps.
RecoveryUnwraps(r) == r.resultHead.digest # None /\ r.pins.policy # None
HydrationUnwraps(r) == r.resultHead.digest # None /\ r.pins.policy # None

ReportReceipt(p, command, printable) ==
    /\ At(p, "print") /\ proc[p].args.command = command
    /\ IF printable
       THEN Report(p, [outcome |-> "materialized", pins |-> proc[p].pins,
                       answer |-> proc[p].answer, signer |-> proc[p].args.signer])
       ELSE Report(p, [outcome |-> "panic"])
    /\ UNCHANGED <<file, db, signers>>

ReportDirect(p) == ReportReceipt(p, "direct", TRUE)
ReportRecovery(p) ==
    At(p, "print") /\ ReportReceipt(p, "recovery", RecoveryUnwraps(proc[p].answer.receipt))
ReportHydration(p) ==
    At(p, "print") /\ ReportReceipt(p, "hydrate", HydrationUnwraps(proc[p].answer.receipt))

-----------------------------------------------------------------------------
(* Everything else *)

Killed(p) ==
    /\ ~At(p, "idle")
    /\ proc' = [proc EXCEPT ![p] = Idle]
    /\ told' = None
    /\ UNCHANGED <<file, db, signers, bounds>>

Outside ==
    /\ outside < MaxOutside /\ outside' = outside + 1
    /\ told' = None
    /\ UNCHANGED <<proc, commands>>

FileReplaced ==
    /\ Outside
    /\ file' \in (Backups \cup {None}) \ {file}
    /\ UNCHANGED <<db, signers>>

SignerReplaced ==
    /\ Outside
    /\ \E l \in Locators, k \in Keys : signers[l] # k /\ signers' = [signers EXCEPT ![l] = k]
    /\ UNCHANGED <<file, db>>

\* The persona lives on: a transition, or its terminal revocation.
LiveContinues(end) ==
    /\ Outside
    /\ db.live # None
    /\ ~db.live.terminal
    /\ db' = [db EXCEPT !.live.chain = Append(@, "later"), !.live.terminal = end]
    /\ UNCHANGED <<file, signers>>

Step(p) ==
    \/ Start(p) \/ Inspect(p) \/ Compare(p)
    \/ ReadImport(p) \/ Import(p) \/ ReportImport(p)
    \/ Export(p) \/ WriteExport(p)
    \/ LookForReceipt(p) \/ Preflight(p) \/ Challenge(p) \/ Commit(p)
    \/ ReportDirect(p) \/ ReportRecovery(p) \/ ReportHydration(p)
    \/ Killed(p)

Next ==
    \/ \E p \in Processes : Step(p)
    \/ FileReplaced \/ SignerReplaced \/ \E end \in BOOLEAN : LiveContinues(end)

Spec == Init /\ [][Next]_vars

-----------------------------------------------------------------------------
(* Properties *)

\* "matched" is a constant of the three commands' output, on a first run and on
\* a replay: whenever it is printed, the retained archive really is the one that
\* was pinned, by its digest, root, effective head, latest policy and, for a
\* direct activation, current key.
MatchedIsTrue ==
    told # None /\ told.outcome = "materialized" =>
        LET a == db.archive IN
        /\ told.pins.archive = a /\ told.pins.root = a.root
        /\ told.pins.head = EffectiveHead(a)
        /\ told.pins.policy = LatestPolicy(a)
        /\ told.command = "direct" => told.pins.key = a.tip
        /\ told.answer.challenged => told.answer.receipt.signer = told.signer

\* A retry after a lost answer succeeds: a command that is started when its
\* request is the sealed one, with the same signer or with none, whatever other
\* processes and the persona's later life do, is never answered with an error.
RetrySucceeds ==
    \A p \in Processes :
        proc[p].retry /\ told' # told /\ told' # None =>
            ~(told'.process = p /\ told'.outcome = "error" /\ ~At(p, "idle"))

\* backup-import does not ask the database for the disposition it prints: what
\* it derives from the file is what the database says when the import commits.
ImportSaysItsDisposition ==
    \A p \in Processes : At(p, "store") /\ proc'[p].pc = "imported" =>
        DerivedDisposition(proc'[p].found) = Disposition(db')

\* An export never passes off supplied proofs as those of a persona that has
\* its own, nor drops a live transition, and never replaces a file.
ExportKeepsContinuity ==
    \A p \in Processes :
        /\ At(p, "export") /\ proc'[p].pc = "write" =>
              /\ db.live # None => proc'[p].found.archive = db.live
              /\ Quarantined(db) => proc'[p].found.archive = db.archive
              /\ db.archive # None \/ db.live # None => proc[p].args.proof = None
        /\ At(p, "write") /\ proc'[p] # proc[p] /\ file' # file => file = None
=============================================================================
