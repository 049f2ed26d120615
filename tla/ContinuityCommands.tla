------------------------- MODULE ContinuityCommands -------------------------
(***************************************************************************)
(* The continuity and recovery commands of the a-quo command line          *)
(* (crates/a-quo-cli/src/main.rs).  Every command is one long function     *)
(* that refuses at the first check that fails.  It is written here as the  *)
(* sequence of those checks, in the order of the code: ceilings on what    *)
(* was named on the command line, a charge of the signature verifications  *)
(* to come, the reading of the files, a second charge, verifications,      *)
(* signatures, and the write of a new file or the commit to the store.     *)
(* One step of the sequence is one step of the process; other processes    *)
(* move between two steps.                                                 *)
(*                                                                         *)
(* What a proof says is Continuity's and SignedProofs' subject.  Here a    *)
(* proof is the number of its signatures, and what is wrong with the       *)
(* evidence or with an argument is a set of faults, each found by the      *)
(* steps that look for it.                                                 *)
(***************************************************************************)
EXTENDS Naturals, Sequences, FiniteSets

CONSTANTS
    MAX_VERIFICATIONS,            \* MAX_CONTINUITY_COMMAND_SIGNATURE_VERIFICATIONS
    MAX_CONTINUITY_TRANSITIONS,
    MAX_RECOVERY_POLICY_VERSIONS,
    MIN_RECOVERY_AUTHORITIES,
    MAX_RECOVERY_AUTHORITIES,
    Commands,                     \* the commands a run considers
    PolicyChains,                 \* sequences of signature counts
    TransitionChains,             \* sequences of [kind, signatures]
    ApprovalCounts,               \* authority keys, responses, or signatures
    FaultPairs                    \* bound: are two things wrong at once, or one

VARIABLES
    command,    \* the command that runs
    given,      \* its arguments and the evidence they name
    pc,         \* the next step of the command
    opened,     \* it has opened a file the user named
    charged,    \* the last verification work it found acceptable
    work,       \* signature verifications made so far
    signed,     \* it has used a private key
    output,     \* who wrote the output path
    journal,    \* where the committed evidence stands in the store
    bound,      \* the signer binding the store recorded with it
    replayed,   \* the commit found the evidence already there
    outcome

vars == <<command, given, pc, opened, charged, work, signed, output, journal,
          bound, replayed, outcome>>

-----------------------------------------------------------------------------
(* The steps a command is made of. *)

Ensure(b) == [op |-> "ensure", holds |-> b]
Charge(n) == [op |-> "charge", work |-> n]
NewOutput == [op |-> "output"]
Read == [op |-> "read"]
Verify(n, finds) == [op |-> "verify", work |-> n, finds |-> finds]
Sign(n, finds) == [op |-> "sign", work |-> n, finds |-> finds]
Write == [op |-> "write"]
AskDaemon == [op |-> "ask"]
LookUp == [op |-> "lookup"]
Commit(finds) == [op |-> "commit", finds |-> finds]
ConfirmReplay == [op |-> "confirm"]

-----------------------------------------------------------------------------
(* Ceilings and counts. *)

TransitionPathsFit(n, appending) ==
    IF appending THEN n < MAX_CONTINUITY_TRANSITIONS
                 ELSE n <= MAX_CONTINUITY_TRANSITIONS

\* A terminal revocation may follow a full history: its sequence is one more.
TerminalPriorPathsFit(n) == n <= MAX_CONTINUITY_TRANSITIONS

PolicyPathsFit(n, required, appending) ==
    /\ required => n > 0
    /\ IF appending THEN n < MAX_RECOVERY_POLICY_VERSIONS
                    ELSE n <= MAX_RECOVERY_POLICY_VERSIONS

SignerPathsFit(n, faults) ==
    n \in 1..MAX_RECOVERY_AUTHORITIES /\ "pairing" \notin faults

\* An enrolment has at least two signatures, an update two of each side.
MinimumPolicySignatures(n) ==
    IF n = 0 THEN 0
             ELSE MIN_RECOVERY_AUTHORITIES + (n - 1) * 2 * MIN_RECOVERY_AUTHORITIES

MinimumTransitionSignatures(n) == 2 * n

Sum(s) ==
    LET upTo[i \in 0..Len(s)] == IF i = 0 THEN 0 ELSE upTo[i - 1] + s[i]
    IN upTo[Len(s)]

PolicySignatures(policies) == Sum(policies)

SignatureCount(t) ==
    IF t.kind = "recovery" THEN t.signatures + 1 ELSE t.signatures

TransitionSignatures(transitions) ==
    Sum([i \in DOMAIN transitions |-> SignatureCount(transitions[i])])

RequestSignatures(g) ==
    1 + PolicySignatures(g.policies) + TransitionSignatures(g.transitions)

VerificationWork(terms) ==
    Sum([i \in DOMAIN terms |-> terms[i][1] * terms[i][2]])

\* preflight_recovery_policy_parameters: threshold and validity in range.
PolicyParametersFit(g) == "parameters" \notin g.faults

\* require_sha256_pin and required_continuity_checkpoint.
PinsAreWellFormed(g) == "pin_shape" \notin g.faults

HasTerminal(transitions) ==
    \E i \in DOMAIN transitions : transitions[i].kind = "terminal"

HasRecovery(transitions) ==
    \E i \in DOMAIN transitions : transitions[i].kind = "recovery"

ClockFits(g) == "clock" \notin g.faults

PolicyIsActive(g) == "expired" \notin g.faults

\* The faults the verification of a chain finds (SignedProofs, Continuity).
ChainFaults == {"root", "transition", "root_pin"}
PolicyFaults == {"root", "policy", "root_pin", "policy_pin"}

\* The signatures the verifier of a transition checks: both keys of a routine
\* one, the authorities and the next key of a recovery.
Verifications(transitions) ==
    Sum([i \in DOMAIN transitions |->
            CASE transitions[i].kind = "routine" -> 2
              [] transitions[i].kind = "recovery" -> transitions[i].signatures + 1
              [] transitions[i].kind = "terminal" -> transitions[i].signatures])

\* verify_persona_continuity_chain and its recovery-aware form: the root, and
\* every signature of every policy and transition once.
RoutineChain(g, more, finds) ==
    Verify(1 + Verifications(g.transitions) + more, ChainFaults \cup finds)

RecoveryChain(g, more, finds) ==
    Verify(1 + PolicySignatures(g.policies) + Verifications(g.transitions) + more,
           ChainFaults \cup PolicyFaults \cup finds)

\* load_recovery_context: reads the root and the policies, charges the work of
\* the whole command and verifies the policy chain against both pins.
RecoveryContext(g, root_passes, policy_passes, additional) ==
    << Ensure(PolicyPathsFit(Len(g.policies), TRUE, FALSE)),
       Read,
       Charge(VerificationWork(<< <<1, root_passes>>,
                                  <<PolicySignatures(g.policies), policy_passes>>,
                                  <<additional, 1>> >>)),
       Verify(1 + PolicySignatures(g.policies), PolicyFaults) >>

-----------------------------------------------------------------------------
(* The commands.  T and P are the signatures of the transitions and of the *)
(* policies: their least number before a file is read, their exact number  *)
(* after.                                                                  *)

MinT(g) == MinimumTransitionSignatures(Len(g.transitions))
MinP(g) == MinimumPolicySignatures(Len(g.policies))
T(g) == TransitionSignatures(g.transitions)
P(g) == PolicySignatures(g.policies)

CreateTransitionWork(t, p) ==
    VerificationWork(<< <<1, 3>>, <<t, 2>>, <<p, 2>>, <<2, 3>> >>)

\* create_continuity_transition: the routine history needs no policies; one
\* with a recovery in it needs them and a pin on the latest.
CreateContinuityTransition(g) ==
    LET context == HasRecovery(g.transitions) \/ g.policies # <<>> \/ g.pinned
        Chain(more, finds) == IF context THEN RecoveryChain(g, more, finds)
                                         ELSE RoutineChain(g, more, finds)
    IN << Ensure(TransitionPathsFit(Len(g.transitions), TRUE)),
          Ensure(PolicyPathsFit(Len(g.policies), FALSE, FALSE)),
          Charge(CreateTransitionWork(MinT(g), MinP(g))),
          NewOutput,
          Read,
          Ensure(~HasTerminal(g.transitions)),
          Ensure(context => g.policies # <<>> /\ g.pinned),
          Charge(CreateTransitionWork(T(g), P(g))),
          Verify(1, {"root"}),
          Chain(0, {}),
          Ensure("previous_key" \notin g.faults),
          Ensure(ClockFits(g)),
          Sign(2, {"key"}),
          Verify(2, {}),
          Chain(2, {"successor"}),
          Write >>

VerifyContinuityTransition(g) ==
    << Charge(VerificationWork(<< <<2, 1>> >>)), Read, Verify(2, {"transition"}) >>

\* verify_continuity_chain reads routine transitions only.
VerifyContinuityChain(g) ==
    << Ensure(TransitionPathsFit(Len(g.transitions), FALSE)),
       Charge(VerificationWork(<< <<1, 1>>, <<MinT(g), 1>> >>)),
       Ensure(PinsAreWellFormed(g)),
       Read,
       Ensure(~HasRecovery(g.transitions) /\ ~HasTerminal(g.transitions)),
       Charge(VerificationWork(<< <<1, 1>>, <<T(g), 1>> >>)),
       RoutineChain(g, 0, {"head_pin"}) >>

CreatePolicyWork(t, n) == VerificationWork(<< <<1, 3>>, <<t, 2>>, <<n, 3>> >>)

CreateRecoveryPolicy(g) ==
    << Ensure(TransitionPathsFit(Len(g.transitions), FALSE)),
       Ensure(SignerPathsFit(g.approvals, g.faults)),
       Ensure(PolicyParametersFit(g)),
       Charge(CreatePolicyWork(MinT(g), g.approvals)),
       NewOutput,
       Read,
       Ensure(~HasRecovery(g.transitions) /\ ~HasTerminal(g.transitions)),
       Charge(CreatePolicyWork(T(g), g.approvals)),
       Verify(1, {"root"}),
       RoutineChain(g, 0, {}),
       Ensure(ClockFits(g)),
       Sign(g.approvals, {"key", "threshold"}),
       Verify(g.approvals, {}),
       Verify(1 + g.approvals + Verifications(g.transitions), {"successor"}),
       Write >>

\* update_recovery_policy: an expired policy may still be replaced.
UpdateRecoveryPolicy(g) ==
    LET new == g.previous + g.approvals
    IN << Ensure(PolicyPathsFit(Len(g.policies), TRUE, TRUE)),
          Ensure(TransitionPathsFit(Len(g.transitions), FALSE)),
          Ensure(SignerPathsFit(g.previous, g.faults)),
          Ensure(SignerPathsFit(g.approvals, g.faults)),
          Ensure(PolicyParametersFit(g)),
          Charge(VerificationWork(<< <<1, 3>>, <<MinP(g), 3>>, <<MinT(g), 2>>,
                                     <<new, 3>> >>)),
          NewOutput,
          Read >>
       \o RecoveryContext(g, 3, 3, VerificationWork(<< <<T(g), 2>>, <<new, 3>> >>))
       \o << RecoveryChain(g, 0, {}),
             Ensure(~HasTerminal(g.transitions)),
             Ensure(ClockFits(g)),
             Sign(new, {"key", "threshold"}),
             Verify(new, {}),
             RecoveryChain(g, new, {"successor"}),
             Write >>

VerifyRecoveryPolicy(g) ==
    << Ensure(PolicyPathsFit(Len(g.policies), TRUE, FALSE)),
       Charge(VerificationWork(<< <<1, 1>>, <<MinP(g), 1>> >>)) >>
    \o RecoveryContext(g, 1, 1, 0)
    \o << Ensure(PolicyIsActive(g)) >>

\* The commands that append a recovery or the end of a persona share their
\* middle: prior transitions and signers are read, the context is verified,
\* the policy must be active, and the prior chain is verified again.
RecoveryContextFor(g, new) ==
    << NewOutput, Read, Ensure(~HasTerminal(g.transitions)) >>
    \o RecoveryContext(g, 3, 3, VerificationWork(<< <<T(g), 2>>, <<new, 3>> >>))
    \o << Ensure(PolicyIsActive(g)) >>

CreateRecoveryTransition(g) ==
    LET new == g.approvals + 1
    IN << Ensure(PolicyPathsFit(Len(g.policies), TRUE, FALSE)),
          Ensure(TransitionPathsFit(Len(g.transitions), TRUE)),
          Ensure(SignerPathsFit(g.approvals, g.faults)),
          Charge(VerificationWork(<< <<1, 3>>, <<MinP(g), 3>>, <<MinT(g), 2>>,
                                     <<new, 3>> >>)) >>
       \o RecoveryContextFor(g, new)
       \o << RecoveryChain(g, 0, {}),
             Ensure(ClockFits(g)),
             Sign(new, {"key", "threshold"}),
             Verify(new, {}),
             RecoveryChain(g, new, {"successor"}),
             Write >>

CreateTerminalRevocation(g) ==
    << Ensure(PolicyPathsFit(Len(g.policies), TRUE, FALSE)),
       Ensure(TerminalPriorPathsFit(Len(g.transitions))),
       Ensure(SignerPathsFit(g.approvals, g.faults)),
       Ensure(PinsAreWellFormed(g)),
       Ensure("head_sequence" \notin g.faults),
       Charge(VerificationWork(<< <<1, 3>>, <<MinP(g), 3>>, <<MinT(g), 2>>,
                                  <<g.approvals, 3>> >>)) >>
    \o RecoveryContextFor(g, g.approvals)
    \o << Ensure("capability" \notin g.faults),
          RecoveryChain(g, 0, {}),
          Ensure("head_pin" \notin g.faults),
          Ensure(ClockFits(g)),
          Sign(g.approvals, {"key", "threshold"}),
          Verify(g.approvals, {}),
          RecoveryChain(g, g.approvals, {"successor"}),
          Write >>

\* start_recovery_transition_ceremony: the history is the store's own, which
\* the store verifies under its own ceiling before it hands it out.
StartCeremony(g) ==
    << NewOutput,
       Ensure(PinsAreWellFormed(g)),
       Ensure("parameters" \notin g.faults),
       Read,
       Ensure(g.faults \cap {"root", "policy", "transition"} = {}),
       Ensure(~HasTerminal(g.transitions)),
       Ensure("root_pin" \notin g.faults),
       Ensure(g.policies # <<>> /\ "policy_pin" \notin g.faults),
       Ensure("head_pin" \notin g.faults),
       Ensure(Len(g.policies) <= MAX_RECOVERY_POLICY_VERSIONS),
       Charge(VerificationWork(<< <<1, 3>>, <<P(g), 3>>, <<T(g), 2>> >>)),
       Verify(1 + P(g), PolicyFaults),
       Ensure(PolicyIsActive(g)),
       Ensure("clock" \notin g.faults),
       RecoveryChain(g, 0, {"head_pin", "successor"}),
       Write >>

\* The parser takes only a request within the ceilings, its signatures
\* included (validate_request_structure).
RequestIsWellFormed(g) ==
    /\ PolicyPathsFit(Len(g.policies), TRUE, FALSE)
    /\ TransitionPathsFit(Len(g.transitions), FALSE)
    /\ RequestSignatures(g) <= MAX_VERIFICATIONS

\* verify_recovery_ceremony_request_with_expectations: the pins must be the
\* request's, then everything the request carries is verified.
CeremonyRequest(g) ==
    << Ensure(PinsAreWellFormed(g)),
       Ensure(g.faults \cap {"root_pin", "policy_pin", "head_pin"} = {}),
       RecoveryChain(g, 0, {"head_pin", "expired", "clock"}) >>

RespondToCeremony(g) ==
    << NewOutput,
       Read,
       Ensure(RequestIsWellFormed(g)),
       Charge(VerificationWork(<< <<RequestSignatures(g), 1>> >>)) >>
    \o CeremonyRequest(g)
    \o << Read,
          Ensure("participant" \notin g.faults),
          AskDaemon,
          Verify(2, {"response"}),
          Write >>

\* assemble_recovery_transition_ceremony: two signatures of every response,
\* and one of each again in the assembled proof.
AssembleCeremony(g) ==
    << Ensure(g.approvals \in 1..(MAX_RECOVERY_AUTHORITIES + 1)),
       NewOutput,
       Read,
       Ensure(RequestIsWellFormed(g)),
       Charge(VerificationWork(<< <<RequestSignatures(g), 1>>,
                                  <<g.approvals, 3>> >>)) >>
    \o CeremonyRequest(g)
    \o << Read,
          Verify(2 * g.approvals, {"response"}),
          Ensure("threshold" \notin g.faults),
          Verify(g.approvals, {"successor"}),
          Write >>

VerifyRecoveryTransition(g) ==
    << Ensure(PolicyPathsFit(Len(g.policies), TRUE, FALSE)),
       Charge(VerificationWork(<< <<1, 1>>, <<MinP(g), 1>>,
                                  <<MIN_RECOVERY_AUTHORITIES + 1, 1>> >>)),
       Read >>
    \o RecoveryContext(g, 1, 1, g.approvals + 1)
    \o << Ensure("selected" \notin g.faults), Verify(g.approvals + 1, {"transition"}) >>

VerifyTerminalRevocation(g) ==
    << Ensure(PolicyPathsFit(Len(g.policies), TRUE, FALSE)),
       Ensure(PinsAreWellFormed(g)),
       Charge(VerificationWork(<< <<1, 1>>, <<MinP(g), 1>>,
                                  <<MIN_RECOVERY_AUTHORITIES, 1>> >>)),
       Read >>
    \o RecoveryContext(g, 1, 1, g.approvals)
    \o << Ensure("selected" \notin g.faults), Verify(g.approvals, {"transition"}) >>

\* verify_recovery_chain_command: the end of a persona is an argument of its
\* own and goes last.
VerifyRecoveryChain(g) ==
    << Ensure(PolicyPathsFit(Len(g.policies), TRUE, FALSE)),
       Ensure(IF g.terminal > 0 THEN TerminalPriorPathsFit(Len(g.transitions))
                                ELSE TransitionPathsFit(Len(g.transitions), FALSE)),
       Charge(VerificationWork(<< <<1, 1>>, <<MinP(g), 1>>, <<MinT(g), 1>>,
               <<IF g.terminal > 0 THEN MIN_RECOVERY_AUTHORITIES ELSE 0, 1>> >>)),
       Ensure(PinsAreWellFormed(g)),
       Read,
       Ensure(~HasTerminal(g.transitions)),
       Charge(VerificationWork(<< <<1, 1>>, <<P(g), 1>>, <<T(g) + g.terminal, 1>> >>)),
       RecoveryChain(g, g.terminal, {"head_pin"}) >>

\* The commands that change the store.  Its own checks are one step: the pins,
\* the proofs, the clock and the policy (PersonaStore).
StoreFaults == ChainFaults \cup PolicyFaults \cup {"head_pin", "clock", "expired"}

RecordRecoveryPolicy(g) ==
    << Ensure(PolicyPathsFit(Len(g.policies), TRUE, FALSE)),
       Ensure(PinsAreWellFormed(g)),
       Charge(VerificationWork(<< <<MinP(g), 1>> >>)),
       Read,
       Charge(VerificationWork(<< <<P(g), 1>> >>)),
       Commit(StoreFaults) >>

\* commit_recovery_transition_command: without a binding the command may only
\* repeat what the store already has, with the binding the store has.
CommitRecoveryTransition(g) ==
    << Ensure(g.binding # "half"),
       Ensure(PinsAreWellFormed(g)),
       Charge(VerificationWork(<< <<MIN_RECOVERY_AUTHORITIES + 1, 1>> >>)),
       Read,
       Charge(VerificationWork(<< <<g.approvals + 1, 1>> >>)) >>
    \o (IF g.binding = "none" THEN <<LookUp>> ELSE <<>>)
    \o << Commit(StoreFaults), ConfirmReplay >>

CommitTerminalRevocation(g) ==
    << Ensure(PinsAreWellFormed(g)),
       Charge(VerificationWork(<< <<MIN_RECOVERY_AUTHORITIES, 1>> >>)),
       Read,
       Charge(VerificationWork(<< <<g.approvals, 1>> >>)),
       Ensure("head_pin" \notin g.faults),
       Commit(StoreFaults) >>

Program(c, g) ==
    CASE c = "create_transition" -> CreateContinuityTransition(g)
      [] c = "verify_transition" -> VerifyContinuityTransition(g)
      [] c = "verify_chain" -> VerifyContinuityChain(g)
      [] c = "create_policy" -> CreateRecoveryPolicy(g)
      [] c = "update_policy" -> UpdateRecoveryPolicy(g)
      [] c = "verify_policy" -> VerifyRecoveryPolicy(g)
      [] c = "record_policy" -> RecordRecoveryPolicy(g)
      [] c = "create_recovery" -> CreateRecoveryTransition(g)
      [] c = "verify_recovery" -> VerifyRecoveryTransition(g)
      [] c = "commit_recovery" -> CommitRecoveryTransition(g)
      [] c = "create_terminal" -> CreateTerminalRevocation(g)
      [] c = "verify_terminal" -> VerifyTerminalRevocation(g)
      [] c = "commit_terminal" -> CommitTerminalRevocation(g)
      [] c = "verify_recovery_chain" -> VerifyRecoveryChain(g)
      [] c = "start_ceremony" -> StartCeremony(g)
      [] c = "respond" -> RespondToCeremony(g)
      [] c = "assemble" -> AssembleCeremony(g)

\* What can be wrong with the evidence and the arguments of a command.
FaultsOf(c) ==
    LET signing == {"clock", "key", "successor"}
        policies == {"root", "policy", "root_pin", "policy_pin"}
        append == policies \cup signing
                    \cup {"transition", "expired", "threshold", "pairing"}
    IN CASE c = "create_transition" ->
              signing \cup {"root", "transition", "policy", "policy_pin", "previous_key"}
         [] c = "verify_transition" -> {"transition"}
         [] c = "verify_chain" ->
              {"root", "transition", "root_pin", "head_pin", "pin_shape"}
         [] c = "create_policy" ->
              signing \cup {"root", "transition", "threshold", "pairing", "parameters"}
         [] c = "update_policy" -> append \cup {"parameters"}
         [] c = "verify_policy" -> policies \cup {"expired"}
         [] c = "create_recovery" -> append
         [] c = "create_terminal" ->
              append \cup {"pin_shape", "head_pin", "head_sequence", "capability"}
         [] c = "verify_recovery" -> policies \cup {"transition", "selected"}
         [] c = "verify_terminal" ->
              policies \cup {"transition", "selected", "pin_shape"}
         [] c = "verify_recovery_chain" ->
              policies \cup {"transition", "head_pin", "pin_shape"}
         [] c \in {"record_policy", "commit_recovery", "commit_terminal"} ->
              policies \cup {"transition", "head_pin", "pin_shape", "clock", "expired"}
         [] c = "start_ceremony" ->
              policies \cup {"transition", "head_pin", "pin_shape", "parameters",
                             "expired", "clock", "successor"}
         [] c = "respond" ->
              policies \cup {"transition", "head_pin", "pin_shape", "expired", "clock",
                             "participant", "response"}
         [] c = "assemble" ->
              policies \cup {"transition", "head_pin", "pin_shape", "expired", "clock",
                             "response", "threshold", "successor"}

\* The arguments and evidence a command can be given; a fault needs something
\* to be wrong with.
Given(c) ==
    { g \in [policies : IF c \in {"create_policy", "verify_chain", "verify_transition",
                                  "commit_recovery", "commit_terminal"}
                          THEN {<<>>} ELSE PolicyChains,
             transitions : IF c \in {"verify_transition", "verify_policy", "verify_recovery",
                                     "verify_terminal", "record_policy",
                                     "commit_recovery", "commit_terminal"}
                             THEN {<<>>} ELSE TransitionChains,
             approvals : IF c \in {"create_transition", "verify_transition", "verify_chain",
                                   "verify_policy", "record_policy", "start_ceremony",
                                   "respond", "verify_recovery_chain"}
                           THEN {0} ELSE ApprovalCounts,
             previous : IF c = "update_policy" THEN ApprovalCounts ELSE {0},
             pinned : IF c = "create_transition" THEN BOOLEAN ELSE {TRUE},
             terminal : IF c = "verify_recovery_chain" THEN ApprovalCounts ELSE {0},
             binding : IF c = "commit_recovery" THEN {"none", "half", "same", "other"}
                                                ELSE {"same"},
             faults : {{}} \cup { {f, h} : <<f, h>> \in FaultsOf(c) \X FaultsOf(c) }] :
        /\ Cardinality(g.faults) = 2 => FaultPairs
        /\ g.faults \cap {"policy", "policy_pin"} # {} =>
              g.policies # <<>> \/ c \in {"commit_recovery", "commit_terminal"}
        /\ "transition" \in g.faults =>
              \/ g.transitions # <<>> \/ g.terminal > 0
              \/ c \in {"verify_transition", "verify_recovery", "verify_terminal",
                        "record_policy", "commit_recovery", "commit_terminal"} }

Init ==
    /\ command \in Commands
    /\ given \in Given(command)
    /\ pc = 1
    /\ opened = FALSE
    /\ charged = 0
    /\ work = 0
    /\ signed = FALSE
    /\ output \in {"none", "other"}
    /\ journal \in IF command \in {"commit_recovery", "commit_terminal", "record_policy"}
                     THEN {"open", "head", "passed"} ELSE {"open"}
    /\ bound \in IF journal = "open" THEN {"none"} ELSE {"same", "other"}
    /\ replayed = FALSE
    /\ outcome = "running"

-----------------------------------------------------------------------------
(* The interpreter: one step of the command. *)

\* The step succeeds and the command goes on, or it ends here.
Step(passes, last) ==
    /\ pc' = IF passes THEN pc + 1 ELSE pc
    /\ outcome' = CASE ~passes -> "refused"
                    [] passes /\ last -> "ok"
                    [] OTHER -> "running"
    /\ UNCHANGED <<command, given>>

EnsureStep(now, last) ==
    /\ now.op = "ensure"
    /\ Step(now.holds, last)
    /\ UNCHANGED <<opened, charged, work, signed, output, journal, bound, replayed>>

\* require_continuity_command_verification_work.
ChargeStep(now, last) ==
    /\ now.op = "charge"
    /\ charged' = IF now.work <= MAX_VERIFICATIONS THEN now.work ELSE charged
    /\ Step(now.work <= MAX_VERIFICATIONS, last)
    /\ UNCHANGED <<opened, work, signed, output, journal, bound, replayed>>

OutputStep(now, last) ==
    /\ now.op = "output"
    /\ Step(output = "none", last)
    /\ UNCHANGED <<opened, charged, work, signed, output, journal, bound, replayed>>

\* A named file may be missing, not regular, too large or not a proof.
ReadStep(now, last) ==
    /\ now.op = "read"
    /\ opened' = TRUE
    /\ \E readable \in BOOLEAN : Step(readable, last)
    /\ UNCHANGED <<charged, work, signed, output, journal, bound, replayed>>

\* A verification that fails may fail at its last signature.
VerifyStep(now, last) ==
    /\ now.op = "verify"
    /\ work' = work + now.work
    /\ Step(now.finds \cap given.faults = {}, last)
    /\ UNCHANGED <<opened, charged, signed, output, journal, bound, replayed>>

\* A new signature is verified as soon as it is made.
SignStep(now, last) ==
    /\ now.op = "sign"
    /\ signed' = TRUE
    /\ work' = work + now.work
    /\ Step(now.finds \cap given.faults = {}, last)
    /\ UNCHANGED <<opened, charged, output, journal, bound, replayed>>

\* write_private_json_new: a new file or nothing.
WriteStep(now, last) ==
    /\ now.op = "write"
    /\ output' = IF output = "none" THEN "own" ELSE output
    /\ Step(output = "none", last)
    /\ UNCHANGED <<opened, charged, work, signed, journal, bound, replayed>>

\* The daemon answers, refuses, or is lost.
AskStep(now, last) ==
    /\ now.op = "ask"
    /\ \E answered \in BOOLEAN : Step(answered, last)
    /\ UNCHANGED <<opened, charged, work, signed, output, journal, bound, replayed>>

\* Only evidence at the head of the journal can be repeated without a binding.
LookUpStep(now, last) ==
    /\ now.op = "lookup"
    /\ Step(journal = "head", last)
    /\ UNCHANGED <<opened, charged, work, signed, output, journal, bound, replayed>>

\* The store takes new evidence once, and answers again what it has at its
\* head whether or not the policy is still active.
CommitStep(now, last) ==
    /\ now.op = "commit"
    /\ LET finds == IF journal = "head" THEN now.finds \ {"clock", "expired"} ELSE now.finds
           passes == journal # "passed" /\ finds \cap given.faults = {}
       IN /\ journal' = IF passes THEN "head" ELSE journal
          /\ bound' = IF passes /\ journal = "open" THEN given.binding ELSE bound
          /\ replayed' = (passes /\ journal = "head")
          /\ Step(passes, last)
    /\ UNCHANGED <<opened, charged, work, signed, output>>

\* A repeated commit must name the binding the store has for the head.
ConfirmStep(now, last) ==
    /\ now.op = "confirm"
    /\ Step(replayed /\ given.binding # "none"
              => journal = "head" /\ bound = given.binding, last)
    /\ UNCHANGED <<opened, charged, work, signed, output, journal, bound, replayed>>

\* Another process takes the output path.
OtherWrites ==
    /\ outcome = "running"
    /\ output = "none"
    /\ output' = "other"
    /\ UNCHANGED <<command, given, pc, opened, charged, work, signed, journal, bound,
                   replayed, outcome>>

\* Another process commits the same evidence, or moves the journal past it.
OtherCommits ==
    /\ outcome = "running"
    /\ command \in {"commit_recovery", "commit_terminal", "record_policy"}
    /\ \/ /\ journal = "open"
          /\ journal' = "head"
          /\ bound' \in {"same", "other"}
       \/ /\ journal = "open" \/ (journal = "head" /\ command # "commit_terminal")
          /\ journal' = "passed"
          /\ UNCHANGED bound
    /\ UNCHANGED <<command, given, pc, opened, charged, work, signed, output, replayed,
                   outcome>>

CommandStep ==
    /\ outcome = "running"
    /\ LET program == Program(command, given)
           now == program[pc]
           last == pc = Len(program)
       IN \/ EnsureStep(now, last)
          \/ ChargeStep(now, last)
          \/ OutputStep(now, last)
          \/ ReadStep(now, last)
          \/ VerifyStep(now, last)
          \/ SignStep(now, last)
          \/ WriteStep(now, last)
          \/ AskStep(now, last)
          \/ LookUpStep(now, last)
          \/ CommitStep(now, last)
          \/ ConfirmStep(now, last)

Next == CommandStep \/ OtherWrites \/ OtherCommits

Spec == Init /\ [][Next]_vars

-----------------------------------------------------------------------------
(* Properties. *)

SigningCommands == {"create_policy", "update_policy", "create_recovery", "create_terminal"}
AppendingCommands == {"create_transition", "create_recovery", "create_terminal"}

\* A policy that expired may still be replaced; nothing else is excused.
Excused == IF command = "update_policy" THEN {"expired"} ELSE {}

\* A private key is used only on top of evidence that verified, under the
\* pins that were supplied, for a persona that has not ended, at a time no
\* earlier than the history and with an active policy.  What is left to find
\* is about the new signatures themselves.
SignsOnSoundEvidence ==
    signed => /\ given.faults \subseteq {"key", "threshold", "successor"} \cup Excused
              /\ ~HasTerminal(given.transitions)

\* What a command writes or reports as verified has nothing wrong with it:
\* the resulting chain is verified before the file is written.
AcceptsOnlySound ==
    output = "own" \/ (outcome = "ok" /\ ~replayed) =>
        /\ given.faults \subseteq Excused
        /\ command \in AppendingCommands => ~HasTerminal(given.transitions)

\* A command that reports success wrote its own file.
SuccessIsItsOwnFile ==
    outcome = "ok" /\ command \in AppendingCommands \cup SigningCommands
                                   \cup {"start_ceremony", "respond", "assemble"}
        => output = "own"

\* commit_recovery_transition_command reports success with an explicit signer
\* binding only when that is the binding the store recorded, also when another
\* process committed the same evidence first.
BindingIsWhatWasAsked ==
    outcome = "ok" /\ command = "commit_recovery" /\ given.binding # "none"
        => bound = given.binding

=============================================================================
