-------------------------- MODULE IsolatedWorker --------------------------
(***************************************************************************)
(* The process that checks media (C2PA) and supply-chain (Sigstore)        *)
(* evidence: crates/a-quo-c2pa/src/linux.rs and                            *)
(* crates/a-quo-supply-chain/src/linux.rs, whose wait_bounded,             *)
(* write_snapshot, read_bounded and terminate_worker are the same code.    *)
(*                                                                         *)
(* The parent spawns the launcher with three pipes.  A thread writes the   *)
(* sealed snapshot to its standard input; two threads drain its standard   *)
(* output and standard error; the parent polls for its exit until a        *)
(* deadline.  The launcher re-snapshots the stream, compares it with the   *)
(* descriptor it was given and becomes Bubblewrap, whose worker keeps only *)
(* standard error: the response channel.  Bubblewrap and the kernel are    *)
(* external: a worker dies when Bubblewrap does (--die-with-parent and the *)
(* process namespace), and Bubblewrap exits with the worker's status.      *)
(*                                                                         *)
(* Bytes are counted in chunks; a pipe holds PipeCap of them.              *)
(***************************************************************************)
EXTENDS Naturals

CONSTANTS
  None,
  MaxInput,     \* bound: chunks of the largest snapshot
  PipeCap,      \* chunks a pipe holds
  MaxResponse,  \* chunks of MAX_RESPONSE_BYTES
  MaxOutput     \* bound: chunks a worker may write

ASSUME WorkerBounds ==
  /\ {MaxInput, PipeCap, MaxResponse, MaxOutput} \subseteq Nat \ {0}
  /\ MaxResponse < MaxOutput
  /\ None \notin {"running", "done", "report"}

VARIABLES
  helper,       \* which verification runs: "media" or "bundle"
  tools,        \* bwrap and prlimit are root-owned, executable, not writable by others
  size,         \* the snapshot's chunks
  length,       \* the chunks of the response this worker will write
  late,         \* the deadline has passed
  child,        \* the spawned process: launcher, then Bubblewrap
  received,     \* what the launcher read from its standard input
  worker,       \* the sandboxed process
  inPipe,       \* chunks in the standard input pipe
  outPipe,      \* chunks in the standard error pipe
  emitted,      \* all that was written to standard error
  noisy,        \* Bubblewrap or the launcher wrote there too
  input,        \* the thread in write_snapshot
  response,     \* the thread in read_bounded over standard error
  diagnostics,  \* the thread in read_bounded over standard output
  parent,       \* the thread in wait_bounded
  result        \* what the verification returned

threads == <<input, response, diagnostics>>
pipes == <<inPipe, outPipe, emitted, noisy>>
chosen == <<helper, tools, size, length>>
vars == <<chosen, late, child, received, worker, pipes, threads, parent, result>>

\* BoundedBytes.
Bytes == [kept: 0..MaxResponse, overflow: BOOLEAN, failed: BOOLEAN, done: BOOLEAN]
NoBytes == [kept |-> 0, overflow |-> FALSE, failed |-> FALSE, done |-> FALSE]

\* verify_media snapshots an asset, which may be empty; verify_bundle a frame,
\* whose header alone is a chunk.  Both spawn the launcher and wait.
VerifyMedia == helper = "media" /\ size \in 0..MaxInput
VerifyBundle == helper = "bundle" /\ size \in 1..MaxInput

Init ==
  /\ helper \in {"media", "bundle"}
  /\ size \in 0..MaxInput
  /\ VerifyMedia \/ VerifyBundle
  /\ tools \in BOOLEAN
  /\ length \in 1..MaxOutput
  /\ late = FALSE
  /\ child = [stage |-> "launcher", ok |-> FALSE]
  /\ received = 0
  /\ worker = None
  /\ inPipe = 0 /\ outPipe = 0 /\ emitted = 0 /\ noisy = FALSE
  /\ input = [sent |-> 0, state |-> "writing"]
  /\ response = NoBytes
  /\ diagnostics = NoBytes
  /\ parent = [at |-> "polling", reason |-> None]
  /\ result = None

(***************************************************************************)
(* The three threads.                                                      *)
(***************************************************************************)
\* write_snapshot: a chunk at a time, blocking while the pipe is full.
WriteInput ==
  /\ input.state = "writing" /\ input.sent < size
  /\ child.stage = "launcher" /\ inPipe < PipeCap
  /\ inPipe' = inPipe + 1
  /\ input' = [input EXCEPT !.sent = @ + 1]
  /\ UNCHANGED <<chosen, late, child, received, worker, outPipe, emitted, noisy,
                 response, diagnostics, parent, result>>

\* Nobody reads the other end any more: write_all fails.
InputBreaks ==
  /\ input.state = "writing" /\ input.sent < size
  /\ child.stage # "launcher"
  /\ input' = [input EXCEPT !.state = "failed"]
  /\ UNCHANGED <<chosen, late, child, received, worker, pipes, response,
                 diagnostics, parent, result>>

\* read_at fails, or ends before the size the parent measured.
InputFails ==
  /\ input.state = "writing" /\ input.sent < size
  /\ input' = [input EXCEPT !.state = "failed"]
  /\ UNCHANGED <<chosen, late, child, received, worker, pipes, response,
                 diagnostics, parent, result>>

\* The last chunk is flushed and the thread closes the pipe.
InputEnds ==
  /\ input.state = "writing" /\ input.sent = size
  /\ input' = [input EXCEPT !.state = "ok"]
  /\ UNCHANGED <<chosen, late, child, received, worker, pipes, response,
                 diagnostics, parent, result>>

\* read_bounded keeps up to its maximum and drains the rest.
Retain(b) ==
  IF b.kept < MaxResponse THEN [b EXCEPT !.kept = @ + 1] ELSE [b EXCEPT !.overflow = TRUE]

ReadResponse ==
  /\ ~response.done /\ outPipe > 0
  /\ outPipe' = outPipe - 1
  /\ response' = Retain(response)
  /\ UNCHANGED <<chosen, late, child, received, worker, inPipe, emitted, noisy,
                 input, diagnostics, parent, result>>

\* End of file needs every holder of the pipe gone: the child and the worker.
ResponseEnds ==
  /\ ~response.done /\ outPipe = 0
  /\ child.stage = "exited" /\ worker # "running"
  /\ response' = [response EXCEPT !.done = TRUE]
  /\ UNCHANGED <<chosen, late, child, received, worker, pipes, input, diagnostics,
                 parent, result>>

\* The launcher prints nothing on standard output, and Bubblewrap's is the
\* executable it binds: end of file comes with the exec or the exit.
DiagnosticsEnd ==
  /\ ~diagnostics.done /\ child.stage # "launcher"
  /\ diagnostics' = [diagnostics EXCEPT !.done = TRUE]
  /\ UNCHANGED <<chosen, late, child, received, worker, pipes, input, response,
                 parent, result>>

\* A read fails: the thread ends and drops its end of the pipe.
ReadFails ==
  /\ \/ /\ ~response.done
        /\ response' = [response EXCEPT !.done = TRUE, !.failed = TRUE]
        /\ UNCHANGED diagnostics
     \/ /\ ~diagnostics.done
        /\ diagnostics' = [diagnostics EXCEPT !.done = TRUE, !.failed = TRUE]
        /\ UNCHANGED response
  /\ UNCHANGED <<chosen, late, child, received, worker, pipes, input, parent, result>>

(***************************************************************************)
(* The launcher, Bubblewrap and the worker.                                *)
(***************************************************************************)
Exits == child' = [stage |-> "exited", ok |-> FALSE]

\* An error is printed on standard error before the launcher exits.
Complains ==
  /\ outPipe < PipeCap
  /\ outPipe' = outPipe + 1 /\ emitted' = emitted + 1 /\ noisy' = TRUE

\* run_launcher returns before it reads: an argument it refuses, or bwrap or
\* prlimit not as validate_sandbox_executable wants them.
LauncherRefuses ==
  /\ child.stage = "launcher" /\ ~tools
  /\ Exits /\ Complains
  /\ inPipe' = 0
  /\ UNCHANGED <<chosen, late, received, worker, threads, parent, result>>

\* snapshot_stream copies what the parent writes.
LauncherReads ==
  /\ child.stage = "launcher" /\ tools /\ inPipe > 0
  /\ inPipe' = inPipe - 1
  /\ received' = received + 1
  /\ UNCHANGED <<chosen, late, child, worker, outPipe, emitted, noisy, threads,
                 parent, result>>

StreamEnded ==
  child.stage = "launcher" /\ tools /\ inPipe = 0 /\ input.state # "writing"

SlipBecomesSandbox ==
  /\ StreamEnded
  /\ child' = [child EXCEPT !.stage = "sandbox"]
  /\ worker' = "running"
  /\ UNCHANGED <<chosen, late, received, pipes, threads, parent, result>>

\* The stream is what the parent's descriptor says: exec Bubblewrap.
LauncherBecomesSandbox ==
  /\ StreamEnded /\ received = size
  /\ child' = [child EXCEPT !.stage = "sandbox"]
  /\ worker' = "running"
  /\ UNCHANGED <<chosen, late, received, pipes, threads, parent, result>>

\* LauncherInputMismatch.
LauncherMismatch ==
  /\ StreamEnded /\ received # size
  /\ Exits /\ Complains
  /\ UNCHANGED <<chosen, late, received, worker, inPipe, threads, parent, result>>

\* Bubblewrap warns on the channel the worker answers on.
SandboxWarns ==
  /\ child.stage = "sandbox" /\ ~noisy /\ ~response.done
  /\ emitted < MaxOutput
  /\ Complains
  /\ UNCHANGED <<chosen, late, child, received, worker, inPipe, threads, parent, result>>

\* run_worker writes its response, blocking while the pipe is full.
WorkerWrites ==
  /\ worker = "running" /\ emitted < length /\ ~response.done
  /\ outPipe < PipeCap
  /\ outPipe' = outPipe + 1 /\ emitted' = emitted + 1
  /\ UNCHANGED <<chosen, late, child, received, worker, inPipe, noisy, threads,
                 parent, result>>

WorkerFinishes ==
  /\ worker = "running" /\ emitted >= length
  /\ worker' = "done"
  /\ UNCHANGED <<chosen, late, child, received, pipes, threads, parent, result>>

\* The pipe has no reader: write fails and run_worker returns an error.
WorkerBreaks ==
  /\ worker = "running" /\ emitted < length /\ response.done
  /\ worker' = "failed"
  /\ UNCHANGED <<chosen, late, child, received, pipes, threads, parent, result>>

\* It panics or meets a resource limit, after any part of its response.
WorkerFails ==
  /\ worker = "running"
  /\ worker' = "failed"
  /\ UNCHANGED <<chosen, late, child, received, pipes, threads, parent, result>>

\* Bubblewrap leaves with the worker's status, or dies by itself.
SandboxExits ==
  /\ child.stage = "sandbox" /\ worker # "running"
  /\ child' = [stage |-> "exited", ok |-> worker = "done"]
  /\ UNCHANGED <<chosen, late, received, worker, pipes, threads, parent, result>>

SandboxDies ==
  /\ child.stage = "sandbox"
  /\ Exits
  /\ UNCHANGED <<chosen, late, received, worker, pipes, threads, parent, result>>

\* The kernel kills what outlives Bubblewrap in its namespace.
WorkerIsKilled ==
  /\ child.stage = "exited" /\ worker = "running"
  /\ worker' = "killed"
  /\ UNCHANGED <<chosen, late, child, received, pipes, threads, parent, result>>

(***************************************************************************)
(* The parent.                                                             *)
(***************************************************************************)
DeadlinePasses ==
  /\ ~late /\ late' = TRUE
  /\ UNCHANGED <<chosen, child, received, worker, pipes, threads, parent, result>>

\* try_wait says the child has exited.
PollExited ==
  /\ parent.at = "polling" /\ child.stage = "exited"
  /\ parent' = [parent EXCEPT !.at = "joining"]
  /\ UNCHANGED <<chosen, late, child, received, worker, pipes, threads, result>>

\* It has not, and the deadline has passed.
PollLate ==
  /\ parent.at = "polling" /\ child.stage # "exited" /\ late
  /\ parent' = [at |-> "killing", reason |-> "timed out"]
  /\ UNCHANGED <<chosen, late, child, received, worker, pipes, threads, result>>

\* try_wait fails.
PollFails ==
  /\ parent.at = "polling"
  /\ parent' = [at |-> "killing", reason |-> "unavailable"]
  /\ UNCHANGED <<chosen, late, child, received, worker, pipes, threads, result>>

\* terminate_worker: unless it has exited meanwhile, the process group is
\* killed; then the child is waited for.  The worker is in a session of its own.
TerminateWorker ==
  /\ parent.at = "killing"
  /\ IF child.stage = "exited" THEN UNCHANGED child ELSE Exits
  /\ parent' = [parent EXCEPT !.at = "joining"]
  /\ UNCHANGED <<chosen, late, received, worker, pipes, threads, result>>

\* verify_media and verify_bundle after wait_bounded, in the order of the code.
SlipVerdict ==
  IF parent.reason # None THEN parent.reason
  ELSE IF input.state # "ok" THEN "input io"
  ELSE IF diagnostics.failed \/ response.failed THEN "output io"
  ELSE IF response.overflow THEN "too large"
  ELSE IF noisy \/ response.kept # length THEN "invalid report"
  ELSE "report"

Verdict ==
  IF parent.reason # None THEN parent.reason
  ELSE IF input.state # "ok" THEN "input io"
  ELSE IF diagnostics.failed \/ response.failed THEN "output io"
  ELSE IF diagnostics.overflow \/ response.overflow THEN "too large"
  ELSE IF ~child.ok THEN "worker failed"
  ELSE IF noisy \/ response.kept # length THEN "invalid report"
  ELSE "report"

SlipThreadsJoined ==
  \/ parent.reason # None
  \/ input.state # "writing" /\ response.done /\ diagnostics.done

ThreadsJoined == input.state # "writing" /\ response.done /\ diagnostics.done

\* The three threads are joined on every path, then the verdict is returned.
Return ==
  /\ parent.at = "joining" /\ ThreadsJoined
  /\ parent' = [parent EXCEPT !.at = "returned"]
  /\ result' = Verdict
  /\ UNCHANGED <<chosen, late, child, received, worker, pipes, threads>>

Returned == parent.at = "returned" /\ UNCHANGED vars

InputStep == WriteInput \/ InputBreaks \/ InputEnds
ResponseStep == ReadResponse \/ ResponseEnds
LauncherStep == LauncherRefuses \/ LauncherReads \/ LauncherBecomesSandbox \/ LauncherMismatch
WorkerStep == WorkerWrites \/ WorkerFinishes \/ WorkerBreaks
KernelStep == SandboxExits \/ WorkerIsKilled
ParentStep == PollExited \/ PollLate \/ TerminateWorker \/ Return

\* Everything but the clock.
Prompt ==
  \/ InputStep \/ InputFails \/ ResponseStep \/ DiagnosticsEnd \/ ReadFails
  \/ LauncherStep \/ SandboxWarns \/ WorkerStep \/ WorkerFails
  \/ KernelStep \/ SandboxDies
  \/ ParentStep \/ PollFails
  \/ Returned
Next == Prompt \/ DeadlinePasses

Threads ==
  /\ WF_vars(InputStep) /\ WF_vars(ResponseStep) /\ WF_vars(DiagnosticsEnd)
  /\ WF_vars(KernelStep) /\ WF_vars(ParentStep)

\* The threads, the kernel and the parent run, and time passes; nothing is
\* asked of the launcher, Bubblewrap or the worker, which may hang.
Spec == Init /\ [][Next]_vars /\ Threads /\ WF_vars(DeadlinePasses)

(***************************************************************************)
(* Properties.                                                             *)
(***************************************************************************)
\* verify_media and verify_bundle: a report is the whole answer, and nothing
\* but the answer, of a worker that finished and had the whole snapshot.
ReportIsWhole ==
  result = "report" =>
    /\ worker = "done" /\ child.ok /\ received = size
    /\ response.kept = length /\ emitted = length /\ ~noisy

\* run_launcher: nothing is parsed that is not the snapshot the parent
\* described, however the transfer went.
WorkerHasTheSnapshot == worker # None => received = size

\* wait_bounded: when the verification returns, on whatever path, the child is
\* reaped and no worker is left behind, although the worker is not in the
\* process group that is killed: the end of its pipe is what is waited for.
NothingOutlivesTheVerdict ==
  result # None => child.stage = "exited" /\ (worker = "running" => response.failed)

=============================================================================
