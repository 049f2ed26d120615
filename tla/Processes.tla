------------------------------- MODULE Processes -------------------------------
(***************************************************************************)
(* The programs that wait for one another: the parent of an isolated       *)
(* worker (IsolatedWorker), the daemon that asks through a consent window  *)
(* (ApprovalProcess) and the daemons that contend for the socket path      *)
(* (ConsentListener).  They share nothing, so one of them moves in a       *)
(* behaviour, the subject, and the others stay where they start.           *)
(*                                                                         *)
(* After the composition come the proofs, for sizes, windows, daemons and  *)
(* inodes of any number.  A worker sees only the described snapshot, a     *)
(* report is whole, and no worker outlives the verdict; a decision of the  *)
(* user is everything the consent window ever wrote; a daemon that accepts *)
(* connections owns the socket path alone.                                 *)
(***************************************************************************)
EXTENDS IsolatedWorker, Sequences, SequenceTheorems, TLAPS

CONSTANTS Decisions, Prompts, Asked, MAX_MESSAGE_CHUNKS, MaxWritten
CONSTANTS Daemons, Inodes, MaxCrashes, MaxOutside

\* A decision of the user is none of the errors an approval may end with, and the
\* absence of an entry is no entry.
ASSUME ProcessesAssumption ==
    /\ Decisions \cap {None, "Failed", "TimedOut", "Unavailable"} = {}
    /\ None \notin {"Failed", "TimedOut", "Unavailable"}
    /\ None \notin [inode: Inodes, kind: {"socket", "file"}, mode: {"umask", "0600"}]

VARIABLES subject
VARIABLES step, answer, eof, decided, expired, window, status, writers, pipe, written
VARIABLES dir, entry, pc, bound, mine, listening, crashes, outside

approvalVars == <<step, answer, eof, decided, expired, window, status, writers, pipe, written>>
listenerVars == <<dir, entry, pc, bound, mine, listening, crashes, outside>>
processVars == <<subject, vars, approvalVars, listenerVars>>

Approval == INSTANCE ApprovalProcess WITH
    pc <- step, response <- answer, result <- decided, child <- window

Listener == INSTANCE ConsentListener

ProcessesInit ==
    /\ subject \in {"worker", "approval", "listener"}
    /\ Init /\ Approval!Init /\ Listener!Init
    /\ subject # "worker" => helper = "media" /\ size = 0 /\ tools /\ length = 1

\* decide has returned, and the daemon goes on.
Decided == step = "done" /\ UNCHANGED approvalVars

ProcessesNext ==
    /\ UNCHANGED subject
    /\ \/ subject = "worker" /\ Next /\ UNCHANGED <<approvalVars, listenerVars>>
       \/ subject = "approval" /\ Approval!Next /\ UNCHANGED <<vars, listenerVars>>
       \/ subject = "approval" /\ Decided /\ UNCHANGED <<vars, listenerVars>>
       \/ subject = "listener" /\ Listener!Next /\ UNCHANGED <<vars, approvalVars>>

\* Nothing is asked of the launcher, Bubblewrap, the worker or the window: only
\* the program's own threads, the kernel and the clock go on.
ProcessesSpec ==
    /\ ProcessesInit /\ [][ProcessesNext]_processVars
    /\ WF_vars(subject = "worker" /\ InputStep)
    /\ WF_vars(subject = "worker" /\ ResponseStep)
    /\ WF_vars(subject = "worker" /\ DiagnosticsEnd)
    /\ WF_vars(subject = "worker" /\ KernelStep)
    /\ WF_vars(subject = "worker" /\ ParentStep)
    /\ WF_vars(subject = "worker" /\ DeadlinePasses)
    /\ WF_approvalVars(subject = "approval" /\ Approval!Parent)
    /\ WF_approvalVars(subject = "approval" /\ Approval!DeadlinePasses)

\* See ApprovalProcess: a decision is the whole answer of a window that ended.
DecisionIsTheWholeAnswer == Approval!DecisionIsTheWholeAnswer

\* See ConsentListener: a daemon that accepts owns the path.
ListenerOwnsThePath == Listener!ListenerOwnsThePath

\* WORKER_TIMEOUT and the approval deadline: a verification and a question to
\* the user both return, whatever the launcher, the sandbox, the worker or the
\* window does, hanging for ever included.
EveryWaitEnds ==
    <>(CASE subject = "worker" -> result # None
         [] subject = "approval" -> decided # None /\ step = "done"
         [] subject = "listener" -> TRUE)

-----------------------------------------------------------------------------
(* The isolated worker.  The invariant says who can still hold the         *)
(* response pipe: nobody, once its reader saw the end of it.               *)

WorkerTypes ==
  /\ outPipe \in Nat /\ emitted \in Nat
  /\ child \in [stage: {"launcher", "sandbox", "exited"}, ok: BOOLEAN]
  /\ response \in [kept: Nat, overflow: BOOLEAN, failed: BOOLEAN, done: BOOLEAN]

ParentTypes ==
  parent \in [at: {"polling", "killing", "joining", "returned"},
              reason: {None, "timed out", "unavailable"}]

\* The child is the launcher until there is a worker, whose success is the
\* only way to a successful exit.
Stages ==
  /\ child.stage = "launcher" => worker = None
  /\ child.ok => child.stage = "exited" /\ worker = "done"

\* The reader saw the end: nothing is in the pipe and nobody can write to it.
PipeEnded ==
  response.done /\ ~response.failed =>
    child.stage = "exited" /\ worker # "running" /\ outPipe = 0

\* Until something is dropped, what was written is in the pipe or was kept.
NothingLost ==
  ~response.failed /\ ~response.overflow => response.kept + outPipe = emitted

\* Joining starts when the child is gone; the verdict follows the joins.
ParentOrder ==
  /\ parent.at \in {"joining", "returned"} => child.stage = "exited"
  /\ result # None => parent.at = "returned" /\ response.done

IInv ==
  /\ WorkerTypes /\ ParentTypes /\ Stages /\ PipeEnded /\ NothingLost /\ ParentOrder
  /\ WorkerHasTheSnapshot /\ ReportIsWhole

\* The inductive invariant holds when the launcher has just been spawned.
LEMMA InitIInv == Init => IInv
<1> SUFFICES ASSUME Init PROVE IInv
  OBVIOUS
<1>1. WorkerTypes
  BY DEF Init, WorkerTypes, NoBytes
<1>2. ParentTypes
  BY DEF Init, ParentTypes
<1>3. Stages /\ PipeEnded /\ NothingLost /\ ParentOrder
  BY DEF Init, NoBytes, Stages, PipeEnded, NothingLost, ParentOrder
<1>4. WorkerHasTheSnapshot /\ ReportIsWhole
  BY WorkerBounds DEF Init, WorkerHasTheSnapshot, ReportIsWhole
<1> QED
  BY <1>1, <1>2, <1>3, <1>4 DEF IInv

\* The state of the worker and its parent that the invariant speaks about.
watched == <<size, length, outPipe, emitted, noisy, received, child, worker, response,
             parent, result>>

\* A step of either process that leaves all of that alone preserves the invariant.
LEMMA UnchangedPreserves ==
  ASSUME IInv, UNCHANGED watched
  PROVE  IInv'
<1>1. WorkerTypes' /\ ParentTypes'
  BY ZenonT(60) DEF watched, IInv, WorkerTypes, ParentTypes
<1>2. Stages' /\ PipeEnded'
  BY Zenon DEF watched, IInv, Stages, PipeEnded
<1>3. NothingLost' /\ ParentOrder'
  BY Zenon DEF watched, IInv, NothingLost, ParentOrder
<1>4. WorkerHasTheSnapshot' /\ ReportIsWhole'
  BY Zenon DEF watched, IInv, WorkerHasTheSnapshot, ReportIsWhole
<1> QED
  BY <1>1, <1>2, <1>3, <1>4, Zenon DEF IInv

\* So do the input thread, the diagnostics thread and the clock.
LEMMA InputPreserves ==
  ASSUME IInv, InputStep \/ InputFails \/ DiagnosticsEnd \/ DeadlinePasses
  PROVE  IInv'
<1>1. UNCHANGED watched
  BY Zenon DEF InputStep, WriteInput, InputBreaks, InputEnds, InputFails, DiagnosticsEnd,
               DeadlinePasses, watched, pipes, chosen, threads
<1> QED
  BY <1>1, UnchangedPreserves

\* read_bounded's chunk: kept while there is room, then only noted.
LEMMA RetainFacts ==
  ASSUME NEW b \in [kept: Nat, overflow: BOOLEAN, failed: BOOLEAN, done: BOOLEAN]
  PROVE  /\ Retain(b) \in [kept: Nat, overflow: BOOLEAN, failed: BOOLEAN, done: BOOLEAN]
         /\ Retain(b).failed = b.failed /\ Retain(b).done = b.done
         /\ ~Retain(b).overflow => ~b.overflow /\ Retain(b).kept = b.kept + 1
<1>1. CASE b.kept < MaxResponse
  <2>1. Retain(b) = [b EXCEPT !.kept = b.kept + 1]
    BY <1>1 DEF Retain
  <2> QED
    BY <2>1
<1>2. CASE ~(b.kept < MaxResponse)
  <2>1. Retain(b) = [b EXCEPT !.overflow = TRUE]
    BY <1>2 DEF Retain
  <2> QED
    BY <2>1, Zenon
<1> QED
  BY <1>1, <1>2

\* The response thread moves a chunk from the pipe to what it keeps, drops the
\* excess, sees the end or fails.
LEMMA ResponsePreserves ==
  ASSUME IInv, ResponseStep \/ ReadFails
  PROVE  IInv'
<1>1. CASE ReadResponse
  <2>1. UNCHANGED <<size, length, emitted, noisy, received, child, worker, parent, result>>
    BY <1>1 DEF ReadResponse, chosen
  <2>2. /\ outPipe > 0 /\ outPipe' = outPipe - 1
        /\ response' = Retain(response) /\ ~response.done
    BY <1>1 DEF ReadResponse
  <2>3. /\ response' \in [kept: Nat, overflow: BOOLEAN, failed: BOOLEAN, done: BOOLEAN]
        /\ response'.failed = response.failed /\ ~response'.done
        /\ ~response'.overflow => ~response.overflow /\ response'.kept = response.kept + 1
    BY <2>2, RetainFacts DEF IInv, WorkerTypes
  <2>4. WorkerTypes'
    <3>1. outPipe' \in Nat
      BY <2>2 DEF IInv, WorkerTypes
    <3> QED
      BY <2>1, <2>3, <3>1 DEF IInv, WorkerTypes
  <2>5. NothingLost'
    BY <2>1, <2>2, <2>3 DEF IInv, WorkerTypes, NothingLost
  <2>6. result = None
    BY <2>2 DEF IInv, ParentOrder
  <2>7. ParentTypes' /\ Stages' /\ PipeEnded' /\ ParentOrder' /\ WorkerHasTheSnapshot'
    BY <2>1, <2>3, <2>6 DEF IInv, ParentTypes, Stages, PipeEnded, ParentOrder, WorkerHasTheSnapshot
  <2>8. ReportIsWhole'
    BY <2>1, <2>6, WorkerBounds DEF ReportIsWhole
  <2> QED
    BY <2>4, <2>5, <2>7, <2>8 DEF IInv
<1>2. CASE ResponseEnds \/ ReadFails
  <2>1. UNCHANGED <<size, length, outPipe, emitted, noisy, received, child, worker, parent,
                    result>>
    BY <1>2 DEF ResponseEnds, ReadFails, chosen, pipes
  <2>2. CASE response' = response
    BY <2>1, <2>2, UnchangedPreserves DEF watched
  <2>3. CASE response' = [response EXCEPT !.done = TRUE] /\ ResponseEnds
    <3>1. /\ response'.kept = response.kept /\ response'.overflow = response.overflow
          /\ response'.failed = response.failed /\ response'.done
      BY <2>3, Zenon DEF IInv, WorkerTypes
    <3>2. WorkerTypes'
      BY <2>1, <2>3, Zenon DEF IInv, WorkerTypes
    <3>3. outPipe = 0 /\ child.stage = "exited" /\ worker # "running"
      BY <2>3 DEF ResponseEnds
    <3>4. /\ ParentTypes' /\ Stages' /\ PipeEnded' /\ NothingLost' /\ ParentOrder'
          /\ WorkerHasTheSnapshot'
      BY <2>1, <3>1, <3>3 DEF IInv, ParentTypes, Stages, PipeEnded, NothingLost, ParentOrder,
                              WorkerHasTheSnapshot
    <3>5. ReportIsWhole'
      BY <2>1, <3>1 DEF IInv, ReportIsWhole
    <3> QED
      BY <3>2, <3>4, <3>5 DEF IInv
  <2>4. CASE response' = [response EXCEPT !.done = TRUE, !.failed = TRUE]
    <3>1. /\ response'.kept = response.kept /\ response'.failed /\ response'.done
      BY <2>4, Zenon DEF IInv, WorkerTypes
    <3>2. WorkerTypes'
      BY <2>1, <2>4, Zenon DEF IInv, WorkerTypes
    <3>3. /\ ParentTypes' /\ Stages' /\ PipeEnded' /\ NothingLost' /\ ParentOrder'
          /\ WorkerHasTheSnapshot'
      BY <2>1, <3>1 DEF IInv, ParentTypes, Stages, PipeEnded, NothingLost, ParentOrder,
                        WorkerHasTheSnapshot
    <3>4. ReportIsWhole'
      BY <2>1, <3>1 DEF IInv, ReportIsWhole
    <3> QED
      BY <3>2, <3>3, <3>4 DEF IInv
  <2> QED
    BY <1>2, <2>2, <2>3, <2>4, Zenon DEF ResponseEnds, ReadFails
<1> QED
  BY <1>1, <1>2 DEF ResponseStep

\* While there is a child to wait for there is no verdict.
LEMMA NoVerdictYet ==
  ASSUME IInv, child.stage # "exited"
  PROVE  result = None
BY DEF IInv, ParentOrder

\* One more chunk in the pipe is one more chunk kept or waiting: the count that
\* read_bounded's reader and the writer share grows on both sides.
LEMMA OneMore ==
  ASSUME NEW b \in [kept: Nat, overflow: BOOLEAN, failed: BOOLEAN, done: BOOLEAN],
         NEW n \in Nat, NEW sum, b.kept + n = sum
  PROVE  b.kept + (n + 1) = sum + 1
OBVIOUS

\* A chunk put into the response pipe is neither lost nor kept yet, and nobody
\* writes into a pipe whose end was seen.
LEMMA EmitPreserves ==
  ASSUME IInv, outPipe' = outPipe + 1, emitted' = emitted + 1,
         worker = "running" \/ child.stage # "exited",
         child' = child \/ child' = [stage |-> "exited", ok |-> FALSE],
         child.stage = "exited" => child' = child,
         noisy' = noisy \/ child.stage # "exited",
         UNCHANGED <<size, length, received, worker, response, parent, result>>
  PROVE  IInv'
<1>1. /\ child' \in [stage: {"launcher", "sandbox", "exited"}, ok: BOOLEAN]
      /\ child.stage = "exited" => child'.stage = "exited"
      /\ child'.ok => child.ok /\ child'.stage = child.stage
      /\ child'.stage = "launcher" => child.stage = "launcher"
  <2>1. CASE child' = child
    BY <2>1 DEF IInv, WorkerTypes
  <2>2. CASE child' = [stage |-> "exited", ok |-> FALSE]
    BY <2>2
  <2> QED
    BY <2>1, <2>2
<1>2. WorkerTypes'
  <2>1. outPipe' \in Nat /\ emitted' \in Nat
    BY DEF IInv, WorkerTypes
  <2> QED
    BY <1>1, <2>1 DEF IInv, WorkerTypes
<1>3. NothingLost'
  BY OneMore, ZenonT(60) DEF IInv, WorkerTypes, NothingLost
<1>4. ParentTypes' /\ Stages' /\ PipeEnded' /\ ParentOrder' /\ WorkerHasTheSnapshot'
  BY <1>1 DEF IInv, ParentTypes, Stages, PipeEnded, ParentOrder, WorkerHasTheSnapshot
<1>5. result # "report"
  BY NoVerdictYet, WorkerBounds DEF IInv, ReportIsWhole
<1>6. ReportIsWhole'
  BY <1>5 DEF ReportIsWhole
<1> QED
  BY <1>2, <1>3, <1>4, <1>6 DEF IInv

\* The launcher: only a stream of the described size starts a worker.
LEMMA LauncherPreserves ==
  ASSUME IInv, LauncherStep
  PROVE  IInv'
<1>1. CASE LauncherRefuses
  BY <1>1, EmitPreserves, Zenon DEF LauncherRefuses, Exits, Complains, chosen, threads
<1>2. CASE LauncherReads
  <2>1. /\ child.stage = "launcher"
        /\ UNCHANGED <<size, length, outPipe, emitted, noisy, child, worker, response, parent,
                       result>>
    BY <1>2 DEF LauncherReads, chosen, threads
  <2>2. result = None /\ worker = None
    BY <2>1, NoVerdictYet DEF IInv, Stages
  <2>3. ReportIsWhole' /\ WorkerHasTheSnapshot'
    BY <2>1, <2>2, WorkerBounds DEF ReportIsWhole, WorkerHasTheSnapshot
  <2> QED
    BY <2>1, <2>3 DEF IInv, WorkerTypes, ParentTypes, Stages, PipeEnded, NothingLost, ParentOrder
<1>3. CASE LauncherBecomesSandbox
  <2>1. /\ child.stage = "launcher" /\ received = size
        /\ child' = [child EXCEPT !.stage = "sandbox"] /\ worker' = "running"
        /\ UNCHANGED <<size, length, outPipe, emitted, noisy, received, response, parent, result>>
    BY <1>3 DEF LauncherBecomesSandbox, StreamEnded, chosen, pipes, threads
  <2>2. /\ child' \in [stage: {"launcher", "sandbox", "exited"}, ok: BOOLEAN]
        /\ child'.stage = "sandbox" /\ child'.ok = child.ok
    BY <2>1 DEF IInv, WorkerTypes
  <2>3. result = None /\ ~child.ok
    BY <2>1, NoVerdictYet DEF IInv, Stages
  <2>4. WorkerTypes' /\ ParentTypes'
    BY <2>1, <2>2 DEF IInv, WorkerTypes, ParentTypes
  <2>5. Stages' /\ PipeEnded' /\ NothingLost' /\ ParentOrder'
    BY <2>1, <2>2, <2>3 DEF IInv, Stages, PipeEnded, NothingLost, ParentOrder
  <2>6. WorkerHasTheSnapshot' /\ ReportIsWhole'
    BY <2>1, <2>3, WorkerBounds DEF WorkerHasTheSnapshot, ReportIsWhole
  <2> QED
    BY <2>4, <2>5, <2>6 DEF IInv
<1>4. CASE LauncherMismatch
  BY <1>4, EmitPreserves, Zenon DEF LauncherMismatch, StreamEnded, Exits, Complains, chosen, threads
<1> QED
  BY <1>1, <1>2, <1>3, <1>4 DEF LauncherStep

\* The worker ends, by itself or not.
LEMMA WorkerEndPreserves ==
  ASSUME IInv, worker = "running", worker' \in {"done", "failed", "killed"},
         UNCHANGED <<size, length, outPipe, emitted, noisy, received, child, response, parent,
                     result>>
  PROVE  IInv'
<1>1. WorkerTypes' /\ ParentTypes'
  BY ZenonT(60) DEF IInv, WorkerTypes, ParentTypes
<1>2. Stages' /\ PipeEnded' /\ NothingLost' /\ ParentOrder'
  BY WorkerBounds DEF IInv, Stages, PipeEnded, NothingLost, ParentOrder
<1>3. WorkerHasTheSnapshot' /\ ReportIsWhole'
  BY WorkerBounds DEF IInv, WorkerHasTheSnapshot, ReportIsWhole
<1> QED
  BY <1>1, <1>2, <1>3 DEF IInv

\* The child exits, with success only as the worker did.
LEMMA ChildExitPreserves ==
  ASSUME IInv, child.stage # "exited",
         NEW success \in BOOLEAN, success => worker = "done",
         child' = [stage |-> "exited", ok |-> success],
         UNCHANGED <<size, length, outPipe, emitted, noisy, received, worker, response, parent,
                     result>>
  PROVE  IInv'
<1>1. /\ child' \in [stage: {"launcher", "sandbox", "exited"}, ok: BOOLEAN]
      /\ child'.stage = "exited" /\ child'.ok = success
  OBVIOUS
<1>2. WorkerTypes' /\ ParentTypes'
  BY <1>1 DEF IInv, WorkerTypes, ParentTypes
<1>3. Stages' /\ PipeEnded' /\ NothingLost' /\ ParentOrder' /\ WorkerHasTheSnapshot'
  BY <1>1 DEF IInv, Stages, PipeEnded, NothingLost, ParentOrder, WorkerHasTheSnapshot
<1>4. ReportIsWhole'
  BY NoVerdictYet, WorkerBounds DEF ReportIsWhole
<1> QED
  BY <1>2, <1>3, <1>4 DEF IInv

\* Bubblewrap, the worker and the kernel.
LEMMA SandboxPreserves ==
  ASSUME IInv,
         SandboxWarns \/ WorkerStep \/ WorkerFails \/ KernelStep \/ SandboxDies
  PROVE  IInv'
<1>1. CASE SandboxWarns
  BY <1>1, EmitPreserves, Zenon DEF SandboxWarns, Complains, chosen, threads
<1>2. CASE WorkerWrites
  BY <1>2, EmitPreserves, Zenon DEF WorkerWrites, chosen, threads
<1>3. CASE WorkerFinishes \/ WorkerBreaks \/ WorkerFails \/ WorkerIsKilled
  BY <1>3, WorkerEndPreserves, Zenon
     DEF WorkerFinishes, WorkerBreaks, WorkerFails, WorkerIsKilled, chosen, pipes, threads
<1>4. CASE SandboxExits
  <2>1. child' = [stage |-> "exited", ok |-> worker = "done"]
    BY <1>4 DEF SandboxExits
  <2> QED
    BY <1>4, <2>1, ChildExitPreserves, Zenon DEF SandboxExits, chosen, pipes, threads
<1>5. CASE SandboxDies
  BY <1>5, ChildExitPreserves, Zenon DEF SandboxDies, Exits, chosen, pipes, threads
<1> QED
  BY <1>1, <1>2, <1>3, <1>4, <1>5 DEF WorkerStep, KernelStep

\* The parent polls and kills: the joins start when the child is gone.
LEMMA WaitPreserves ==
  ASSUME IInv, PollExited \/ PollLate \/ PollFails \/ TerminateWorker
  PROVE  IInv'
<1>1. CASE PollExited \/ PollLate \/ PollFails
  <2>1. UNCHANGED <<size, length, outPipe, emitted, noisy, received, child, worker, response,
                    result>>
    BY <1>1, Zenon DEF PollExited, PollLate, PollFails, chosen, pipes, threads
  <2>2. ParentTypes' /\ (parent'.at \in {"joining", "returned"} => child.stage = "exited")
    <3>1. CASE PollExited
      BY <3>1, Zenon DEF PollExited, IInv, ParentTypes
    <3>2. CASE PollLate
      BY <3>2, Zenon DEF PollLate, ParentTypes
    <3>3. CASE PollFails
      BY <3>3, Zenon DEF PollFails, ParentTypes
    <3> QED
      BY <1>1, <3>1, <3>2, <3>3
  <2>3. result = None
    BY <1>1, Zenon DEF PollExited, PollLate, PollFails, IInv, ParentOrder
  <2>4. ParentOrder'
    BY <2>1, <2>2, <2>3 DEF ParentOrder
  <2> QED
    BY <2>1, <2>2, <2>4 DEF IInv, WorkerTypes, Stages, PipeEnded, NothingLost,
                            WorkerHasTheSnapshot, ReportIsWhole
<1>2. CASE TerminateWorker
  <2>1. /\ parent.at = "killing" /\ parent' = [parent EXCEPT !.at = "joining"]
        /\ IF child.stage = "exited" THEN child' = child
           ELSE child' = [stage |-> "exited", ok |-> FALSE]
        /\ UNCHANGED <<size, length, outPipe, emitted, noisy, received, worker, response, result>>
    BY <1>2 DEF TerminateWorker, Exits, chosen, pipes, threads
  <2>2. /\ child' \in [stage: {"launcher", "sandbox", "exited"}, ok: BOOLEAN]
        /\ child'.stage = "exited"
        /\ child'.ok => child.ok
    <3>1. CASE child.stage = "exited"
      BY <2>1, <3>1, Zenon DEF IInv, WorkerTypes
    <3>2. CASE child.stage # "exited"
      <4>1. child' = [stage |-> "exited", ok |-> FALSE]
        BY <2>1, <3>2
      <4> QED
        BY <4>1
    <3> QED
      BY <3>1, <3>2
  <2>3. ParentTypes'
    BY <2>1, Zenon DEF IInv, ParentTypes
  <2>4. result = None
    BY <2>1 DEF IInv, ParentOrder
  <2>5. WorkerTypes' /\ Stages' /\ PipeEnded' /\ NothingLost'
    BY <2>1, <2>2 DEF IInv, WorkerTypes, Stages, PipeEnded, NothingLost
  <2>6. ParentOrder' /\ WorkerHasTheSnapshot' /\ ReportIsWhole'
    BY <2>1, <2>2, <2>4, WorkerBounds DEF IInv, ParentOrder, WorkerHasTheSnapshot, ReportIsWhole
  <2> QED
    BY <2>3, <2>5, <2>6 DEF IInv
<1> QED
  BY <1>1, <1>2

\* After the joins, the verdict: a report needs the worker's success, and then
\* everything it wrote was kept.
LEMMA ReturnPreserves ==
  ASSUME IInv, Return
  PROVE  IInv'
<1>1. /\ result' = Verdict /\ parent.at = "joining" /\ response.done
      /\ parent' = [parent EXCEPT !.at = "returned"]
      /\ UNCHANGED <<size, length, outPipe, emitted, noisy, received, child, worker, response>>
  BY DEF Return, ThreadsJoined, chosen, pipes, threads
<1>2. parent' \in [at: {"polling", "killing", "joining", "returned"},
                   reason: {None, "timed out", "unavailable"}] /\ parent'.at = "returned"
  BY <1>1, Zenon DEF IInv, ParentTypes
<1>3. ASSUME Verdict = "report"
      PROVE  /\ child.ok /\ ~response.failed /\ ~response.overflow
             /\ ~noisy /\ response.kept = length
  <2>1. parent.reason \in {None, "timed out", "unavailable"}
    BY Zenon DEF IInv, ParentTypes
  <2>2. parent.reason = None
    BY <1>3, <2>1 DEF Verdict
  <2> QED
    BY <1>3, <2>2 DEF Verdict
<1>4. ReportIsWhole'
  <2> SUFFICES ASSUME Verdict = "report"
               PROVE  /\ worker = "done" /\ child.ok /\ received = size
                      /\ response.kept = length /\ emitted = length /\ ~noisy
    BY <1>1 DEF ReportIsWhole
  <2>1. worker = "done" /\ outPipe = 0 /\ response.kept + outPipe = emitted
    BY <1>1, <1>3 DEF IInv, Stages, PipeEnded, NothingLost
  <2>2. received = size
    BY <2>1, WorkerBounds DEF IInv, WorkerHasTheSnapshot
  <2>3. response.kept = emitted
    BY <2>1 DEF IInv, WorkerTypes
  <2> QED
    BY <1>3, <2>1, <2>2, <2>3
<1>5. WorkerTypes' /\ Stages' /\ PipeEnded' /\ NothingLost' /\ WorkerHasTheSnapshot'
  BY <1>1 DEF IInv, WorkerTypes, Stages, PipeEnded, NothingLost, WorkerHasTheSnapshot
<1>6. ParentTypes' /\ ParentOrder'
  BY <1>1, <1>2 DEF IInv, ParentTypes, ParentOrder
<1> QED
  BY <1>4, <1>5, <1>6 DEF IInv

\* Every step, the stuttering of a finished verification included.
LEMMA NextPreserves == IInv /\ [Next]_vars => IInv'
<1> SUFFICES ASSUME IInv, [Next]_vars PROVE IInv'
  OBVIOUS
<1>1. CASE UNCHANGED vars
  <2>1. UNCHANGED watched
    BY <1>1, Zenon DEF vars, watched, chosen, pipes, threads
  <2> QED
    BY <2>1, UnchangedPreserves
<1>2. CASE Next
  <2>1. CASE Returned
    BY <1>1, <2>1 DEF Returned
  <2> QED
    BY <1>2, <2>1, InputPreserves, ResponsePreserves, LauncherPreserves, SandboxPreserves,
       WaitPreserves, ReturnPreserves, Zenon DEF Next, Prompt, ParentStep
<1> QED
  BY <1>1, <1>2

\* run_launcher, for snapshots and pipes of any size: nothing is parsed that is
\* not the snapshot the parent described.
THEOREM WorkerHasTheSnapshotAlways == Spec => []WorkerHasTheSnapshot
<1>1. IInv => WorkerHasTheSnapshot
  BY DEF IInv
<1> QED
  BY <1>1, InitIInv, NextPreserves, PTL DEF Spec

\* verify_media and verify_bundle, for responses and limits of any size: a
\* report is the whole answer of a worker that finished.
THEOREM ReportIsWholeAlways == Spec => []ReportIsWhole
<1>1. IInv => ReportIsWhole
  BY DEF IInv
<1> QED
  BY <1>1, InitIInv, NextPreserves, PTL DEF Spec

\* wait_bounded: no verdict leaves a worker behind, on any path.
THEOREM NothingOutlivesAlways == Spec => []NothingOutlivesTheVerdict
<1>1. IInv => NothingOutlivesTheVerdict
  BY DEF IInv, ParentOrder, PipeEnded, NothingOutlivesTheVerdict
<1> QED
  BY <1>1, InitIInv, NextPreserves, PTL DEF Spec

-----------------------------------------------------------------------------
(* The consent window.                                                     *)

\* What a child process writes and the parent reads are chunks of messages.
ApprovalTypes ==
  /\ step \in {"spawn", "write", "read", "wait", "readAgain", "conclude", "terminate", "done"}
  /\ answer \in Seq(Approval!Chunks) /\ pipe \in Seq(Approval!Chunks)
  /\ written \in Seq(Approval!Chunks)
  /\ eof \in BOOLEAN

\* There is a window once it was spawned, and it was reaped before the parent
\* reads what is left in the pipe.
WindowStages ==
  /\ step = "spawn" => window = "none" /\ ~eof
  /\ step \in {"readAgain", "conclude"} => window = "reaped"
  /\ step = "done" => window = "reaped" \/ (window = "none" /\ decided = "Unavailable")

\* While no error is on its way out, what was written was read or is still there.
NothingUnread ==
  step \notin {"terminate", "done"} \/ decided \in Decisions => written = answer \o pipe

\* The end of the pipe is final: nobody is left to write.
EndIsFinal == eof => writers = {} /\ pipe = << >>

\* There is no decision before the parent concludes, and the one it returns is
\* the message that was read.
DecisionWasRead ==
  /\ step \notin {"terminate", "done"} => decided = None
  /\ step = "terminate" => decided \in {"Failed", "TimedOut"}
  /\ decided \in Decisions =>
       /\ step = "done" /\ window = "reaped" /\ status = "success" /\ eof
       /\ answer = Approval!Message(Asked, decided)

ApprovalInv ==
  /\ ApprovalTypes /\ WindowStages /\ NothingUnread /\ EndIsFinal /\ DecisionWasRead

\* The property is a consequence of what the parent read and of the pipe's end.
LEMMA ApprovalSafe == ApprovalInv => DecisionIsTheWholeAnswer
<1> SUFFICES ASSUME ApprovalInv PROVE Approval!DecisionIsTheWholeAnswer
  BY DEF DecisionIsTheWholeAnswer
<1>1. ASSUME decided \in Decisions
      PROVE  status = "success" /\ writers = {} /\ written = Approval!Message(Asked, decided)
  <2>1. answer = Approval!Message(Asked, decided) /\ eof /\ status = "success"
    BY <1>1, Zenon DEF ApprovalInv, DecisionWasRead
  <2>2. writers = {} /\ pipe = << >> /\ written = answer \o pipe
    BY <1>1, <2>1, Zenon DEF ApprovalInv, EndIsFinal, NothingUnread
  <2>3. answer \o << >> = answer
    BY DEF ApprovalInv, ApprovalTypes
  <2> QED
    BY <2>1, <2>2, <2>3, Zenon
<1>2. step = "done" => window = "reaped" \/ (window = "none" /\ decided = "Unavailable")
  BY Zenon DEF ApprovalInv, WindowStages
<1> QED
  BY <1>1, <1>2, Zenon DEF Approval!DecisionIsTheWholeAnswer

\* The invariant of the approval window holds before the window is opened.
LEMMA ApprovalInitially == Approval!Init => ApprovalInv
<1> SUFFICES ASSUME Approval!Init PROVE ApprovalInv
  OBVIOUS
<1>1. ApprovalTypes
  <2>1. << >> \in Seq(Approval!Chunks)
    OBVIOUS
  <2> QED
    BY <2>1, Zenon DEF Approval!Init, ApprovalTypes
<1>2. written = answer \o pipe
  BY DEF Approval!Init
<1>3. decided = None /\ step = "spawn" /\ window = "none" /\ ~eof
  BY Zenon DEF Approval!Init
<1> QED
  BY <1>1, <1>2, <1>3, ProcessesAssumption, Zenon
     DEF ApprovalInv, WindowStages, NothingUnread, EndIsFinal, DecisionWasRead

\* decode_decision returns the decision of the request that the message names.
LEMMA DecodedMessage ==
  ASSUME Approval!Decodes(answer), answer[1].id = Asked
  PROVE  answer[1].decision \in Decisions /\ answer = Approval!Message(Asked, answer[1].decision)
<1>1. PICK id \in Prompts, d \in Decisions : answer = Approval!Message(id, d)
  BY Zenon DEF Approval!Decodes
<1>2. answer[1] = [id |-> id, decision |-> d, half |-> 1]
  BY <1>1 DEF Approval!Message
<1>3. id = Asked /\ d = answer[1].decision
  BY <1>2
<1> QED
  BY <1>1, <1>3, Zenon

\* An error on its way out: the window is killed and reaped next.
LEMMA FailPreserves ==
  ASSUME ApprovalInv, NEW error \in {"Failed", "TimedOut"}, Approval!Fail(error),
         answer' = answer, pipe' \in Seq(Approval!Chunks), eof' \in BOOLEAN,
         eof' => writers' = {} /\ pipe' = << >>, written' = written
  PROVE  ApprovalInv'
<1>1. decided' = error /\ step' = "terminate" /\ error \notin Decisions
  BY ProcessesAssumption, Zenon DEF Approval!Fail
<1>2. ApprovalTypes'
  BY <1>1 DEF ApprovalInv, ApprovalTypes
<1> QED
  BY <1>1, <1>2 DEF ApprovalInv, WindowStages, NothingUnread, EndIsFinal, DecisionWasRead

\* read_available: the pipe is empty afterwards, and only its end is the end.
LEMMA DrainPreserves ==
  ASSUME ApprovalInv, NEW next \in {"wait", "conclude"}, Approval!Drain(next),
         step \in {"read", "readAgain"}, next = "conclude" => step = "readAgain"
  PROVE  ApprovalInv'
<1>1. /\ pipe' = << >> /\ UNCHANGED <<window, status, writers, written, expired>>
      /\ eof' = (writers = {} \/ (next = "conclude" /\ eof))
  BY Zenon DEF Approval!Drain
<1>2. eof' \in BOOLEAN /\ (eof' => writers' = {} /\ pipe' = << >>)
  BY <1>1 DEF ApprovalInv, EndIsFinal
<1>3. pipe' \in Seq(Approval!Chunks)
  BY <1>1
<1>4. decided = None /\ written = answer \o pipe
  BY Zenon DEF ApprovalInv, DecisionWasRead, NothingUnread
<1>5. CASE Len(answer) + Len(pipe) > MAX_MESSAGE_CHUNKS
  <2>1. Approval!Fail("Failed") /\ answer' = answer
    BY <1>5, Zenon DEF Approval!Drain
  <2> QED
    BY <1>1, <1>2, <1>3, <2>1, FailPreserves, Zenon
<1>6. CASE ~ (Len(answer) + Len(pipe) > MAX_MESSAGE_CHUNKS)
  <2>1. answer' = answer \o pipe /\ step' = next /\ decided' = decided
    BY <1>6, Zenon DEF Approval!Drain
  <2>2. answer' \in Seq(Approval!Chunks) /\ answer' \o << >> = answer'
    BY <2>1 DEF ApprovalInv, ApprovalTypes
  <2>3. ApprovalTypes'
    BY <1>1, <1>2, <1>3, <2>1, <2>2 DEF ApprovalInv, ApprovalTypes
  <2>4. written' = answer' \o pipe'
    BY <1>1, <1>4, <2>1, <2>2, Zenon
  <2>5. WindowStages'
    BY <1>1, <2>1 DEF ApprovalInv, WindowStages
  <2>6. DecisionWasRead'
    BY <1>4, <2>1, ProcessesAssumption, Zenon DEF DecisionWasRead
  <2> QED
    BY <1>2, <2>3, <2>4, <2>5, <2>6, Zenon DEF ApprovalInv, NothingUnread, EndIsFinal
<1> QED
  BY <1>5, <1>6

\* The parent: spawn, write_prompt, the polling loop, the conclusion, the kill.
LEMMA ParentPreserves ==
  ASSUME ApprovalInv, Approval!Parent
  PROVE  ApprovalInv'
<1>1. CASE Approval!Spawn
  <2>1. /\ step = "spawn" /\ step' \in {"done", "write"}
        /\ UNCHANGED <<answer, eof, status, written, expired, pipe>>
    BY <1>1, Zenon DEF Approval!Spawn
  <2>2. decided = None /\ window = "none" /\ ~eof /\ written = answer \o pipe
    BY <2>1, Zenon DEF ApprovalInv, DecisionWasRead, WindowStages, NothingUnread
  <2>3. \/ decided' = "Unavailable" /\ step' = "done" /\ window' = window
        \/ decided' = decided /\ step' = "write"
    BY <1>1, Zenon DEF Approval!Spawn
  <2>4. decided' \notin Decisions
    BY <2>2, <2>3, ProcessesAssumption, Zenon
  <2>5. ApprovalTypes'
    BY <2>1 DEF ApprovalInv, ApprovalTypes
  <2> QED
    BY <2>1, <2>2, <2>3, <2>4, <2>5
       DEF ApprovalInv, WindowStages, NothingUnread, EndIsFinal, DecisionWasRead
<1>2. CASE Approval!WritePrompt
  <2>1. /\ step = "write"
        /\ UNCHANGED <<answer, eof, window, status, writers, written, expired, pipe>>
    BY <1>2, Zenon DEF Approval!WritePrompt
  <2>2. CASE Approval!Fail("Failed")
    BY <2>1, <2>2, FailPreserves DEF ApprovalInv, ApprovalTypes, EndIsFinal
  <2>3. CASE step' = "read" /\ decided' = decided
    <3>1. ApprovalTypes'
      BY <2>1, <2>3 DEF ApprovalInv, ApprovalTypes
    <3> QED
      BY <2>1, <2>3, <3>1
         DEF ApprovalInv, WindowStages, NothingUnread, EndIsFinal, DecisionWasRead
  <2> QED
    BY <1>2, <2>2, <2>3, Zenon DEF Approval!WritePrompt
<1>3. CASE Approval!ReadAvailable
  BY <1>3, DrainPreserves, Zenon DEF Approval!ReadAvailable
<1>4. CASE Approval!ReadAgain
  BY <1>4, DrainPreserves, Zenon DEF Approval!ReadAgain
<1>5. CASE Approval!TryWait
  <2>1. step = "wait" /\ UNCHANGED <<answer, eof, status, writers, written, expired, pipe>>
    BY <1>5, Zenon DEF Approval!TryWait
  <2>2. CASE Approval!Fail("TimedOut")
    BY <2>1, <2>2, FailPreserves DEF ApprovalInv, ApprovalTypes, EndIsFinal
  <2>3. CASE /\ decided' = decided
             /\ \/ step' = "readAgain" /\ window' = "reaped"
                \/ step' = "read" /\ window' = window
    <3>1. ApprovalTypes'
      BY <2>1, <2>3 DEF ApprovalInv, ApprovalTypes
    <3>2. decided = None /\ decided \notin Decisions
      BY <2>1, ProcessesAssumption, Zenon DEF ApprovalInv, DecisionWasRead
    <3> QED
      BY <2>1, <2>3, <3>1, <3>2
         DEF ApprovalInv, WindowStages, NothingUnread, EndIsFinal, DecisionWasRead
  <2> QED
    BY <1>5, <2>2, <2>3, Zenon DEF Approval!TryWait
<1>6. CASE Approval!Conclude
  <2>1. /\ step = "conclude"
        /\ UNCHANGED <<answer, eof, window, status, writers, written, expired, pipe>>
    BY <1>6, Zenon DEF Approval!Conclude
  <2>2. CASE Approval!Fail("Failed")
    BY <2>1, <2>2, FailPreserves DEF ApprovalInv, ApprovalTypes, EndIsFinal
  <2>3. CASE Approval!AnswerAccepted /\ decided' = answer[1].decision /\ step' = "done"
    <3>1. status = "success" /\ eof /\ answer = Approval!Message(Asked, decided')
      BY <2>3, DecodedMessage, Zenon DEF Approval!AnswerAccepted
    <3>2. window = "reaped" /\ written = answer \o pipe
      BY <2>1, Zenon DEF ApprovalInv, WindowStages, NothingUnread
    <3>3. ApprovalTypes'
      BY <2>1, <2>3 DEF ApprovalInv, ApprovalTypes
    <3>4. DecisionWasRead'
      <4>1. Approval!Message(Asked, decided)' = Approval!Message(Asked, decided')
        BY Zenon DEF Approval!Message
      <4> QED
        BY <2>1, <2>3, <3>1, <3>2, <4>1 DEF DecisionWasRead
    <3> QED
      BY <2>1, <2>3, <3>1, <3>2, <3>3, <3>4 DEF ApprovalInv, WindowStages, NothingUnread, EndIsFinal
  <2> QED
    BY <1>6, <2>2, <2>3, Zenon DEF Approval!Conclude
<1>7. CASE Approval!Terminate
  <2>1. /\ step = "terminate" /\ step' = "done" /\ window' = "reaped"
        /\ writers' \in {{}, writers}
        /\ UNCHANGED <<answer, eof, decided, written, expired, pipe>>
    BY <1>7, Zenon DEF Approval!Terminate
  <2>2. decided \notin Decisions
    BY <2>1, ProcessesAssumption, Zenon DEF ApprovalInv, DecisionWasRead
  <2>3. ApprovalTypes'
    BY <2>1 DEF ApprovalInv, ApprovalTypes
  <2> QED
    BY <2>1, <2>2, <2>3
       DEF ApprovalInv, WindowStages, NothingUnread, EndIsFinal, DecisionWasRead
<1> QED
  BY <1>1, <1>2, <1>3, <1>4, <1>5, <1>6, <1>7, Zenon DEF Approval!Parent

\* The window, its helper and the clock: nobody writes behind the end.
LEMMA WindowPreserves ==
  ASSUME ApprovalInv,
         Approval!Write \/ Approval!WindowActs \/ Approval!HelperEnds \/ Approval!DeadlinePasses
  PROVE  ApprovalInv'
<1>1. CASE Approval!Write
  <2>1. PICK chunk \in Approval!Chunks :
          pipe' = Append(pipe, chunk) /\ written' = Append(written, chunk)
    BY <1>1, Zenon DEF Approval!Write
  <2>2. writers # {} /\ UNCHANGED <<step, answer, eof, decided, status, writers, window, expired>>
    BY <1>1, Zenon DEF Approval!Write, Approval!parentVars
  <2>3. ~eof /\ decided \notin Decisions
    BY <2>2, Zenon DEF ApprovalInv, EndIsFinal, DecisionWasRead
  <2>4. Append(answer \o pipe, chunk) = answer \o Append(pipe, chunk)
    <3>1. answer \in Seq(Approval!Chunks) /\ pipe \in Seq(Approval!Chunks)
      BY Zenon DEF ApprovalInv, ApprovalTypes
    <3>2. /\ Append(answer \o pipe, chunk) \in Seq(Approval!Chunks)
          /\ answer \o Append(pipe, chunk) \in Seq(Approval!Chunks)
          /\ Len(Append(answer \o pipe, chunk)) = Len(answer) + Len(pipe) + 1
          /\ Len(answer \o Append(pipe, chunk)) = Len(answer) + Len(pipe) + 1
      BY <3>1
    <3>3. \A i \in 1 .. Len(answer) + Len(pipe) + 1 :
            Append(answer \o pipe, chunk)[i] = (answer \o Append(pipe, chunk))[i]
      BY <3>1
    <3> QED
      BY <3>2, <3>3, SeqEqual, Zenon
  <2>5. ApprovalTypes'
    BY <2>1, <2>2 DEF ApprovalInv, ApprovalTypes
  <2>6. NothingUnread'
    BY <2>1, <2>2, <2>3, <2>4, Zenon DEF ApprovalInv, NothingUnread
  <2> QED
    BY <2>2, <2>3, <2>5, <2>6, Zenon DEF ApprovalInv, WindowStages, EndIsFinal, DecisionWasRead
<1>2. CASE Approval!WindowActs \/ Approval!HelperEnds \/ Approval!DeadlinePasses
  <2>1. UNCHANGED <<step, answer, eof, decided, written, pipe>>
    BY <1>2, Zenon DEF Approval!WindowActs, Approval!HelperEnds, Approval!DeadlinePasses,
                       Approval!parentVars, Approval!windowVars
  <2>2. /\ writers = {} => writers' = {}
        /\ UNCHANGED <<window, status>> \/ (window = "running" /\ window' = "exited")
    <3>1. CASE Approval!WindowActs
      BY <3>1, Zenon DEF Approval!WindowActs
    <3>2. CASE Approval!HelperEnds \/ Approval!DeadlinePasses
      BY <3>2, Zenon DEF Approval!HelperEnds, Approval!DeadlinePasses, Approval!windowVars
    <3> QED
      BY <1>2, <3>1, <3>2
  <2>3. ApprovalTypes'
    BY <2>1 DEF ApprovalInv, ApprovalTypes
  <2>4. Approval!Message(Asked, decided)' = Approval!Message(Asked, decided)
    BY <2>1, Zenon DEF Approval!Message
  <2> QED
    BY <2>1, <2>2, <2>3, <2>4
       DEF ApprovalInv, WindowStages, NothingUnread, EndIsFinal, DecisionWasRead
<1> QED
  BY <1>1, <1>2

-----------------------------------------------------------------------------
(* The consent socket.                                                     *)

\* From bind(2) until it removes the path or ends, a daemon holds the path.
Holding == {"stat", "chmod", "validate", "listen", "serve", "drop", "remove"}

Entries == [inode: Inodes, kind: {"socket", "file"}, mode: {"umask", "0600"}]

\* Nobody else takes or removes the entry of a daemon that holds the path: that
\* would need a free path, or an operator that saw no owner.
HolderIsAlone ==
  \A d \in Daemons : pc[d] \in Holding =>
    /\ entry # None /\ entry.inode = bound[d] /\ entry.kind = "socket"
    /\ \A e \in Daemons : pc[e] \in Holding => e = d

\* What the listener remembers of itself, and the mode it has set.
HolderKnowsItself ==
  \A d \in Daemons :
    /\ pc[d] \in Holding \ {"stat"} => mine[d] = bound[d]
    /\ pc[d] \in Holding \ {"stat", "chmod"} => entry.mode = "0600"
    /\ pc[d] = "serve" => d \in listening

\* The directory is private once some daemon has validated it.
DirectoryStaysPrivate ==
  \A d \in Daemons : pc[d] \in Holding \union {"lookup", "bind", "close"} => dir = "private"

ListenerInv ==
  /\ DOMAIN pc = Daemons /\ DOMAIN bound = Daemons /\ DOMAIN mine = Daemons
  /\ entry \in Entries \union {None}
  /\ HolderIsAlone /\ HolderKnowsItself /\ DirectoryStaysPrivate

\* The property is the invariant at "serve".
LEMMA ListenerSafe == ListenerInv => ListenerOwnsThePath
<1> SUFFICES ASSUME ListenerInv, NEW d \in Daemons, pc[d] = "serve"
             PROVE  /\ d \in listening /\ dir = "private"
                    /\ entry # None
                    /\ entry.inode = bound[d] /\ entry.kind = "socket" /\ entry.mode = "0600"
                    /\ \A e \in Daemons : pc[e] = "serve" => e = d
  BY Zenon DEF ListenerOwnsThePath, Listener!ListenerOwnsThePath
<1>1. pc[d] \in Holding /\ pc[d] \in Holding \ {"stat", "chmod"}
  BY Zenon DEF Holding
<1>2. \A e \in Daemons : pc[e] = "serve" => pc[e] \in Holding
  BY Zenon DEF Holding
<1> QED
  BY <1>1, <1>2, Zenon DEF ListenerInv, HolderIsAlone, HolderKnowsItself, DirectoryStaysPrivate

\* The invariant of the listener holds before any daemon has asked for the lock.
LEMMA ListenerInitially == Listener!Init => ListenerInv
BY DEF Listener!Init, ListenerInv, HolderIsAlone, HolderKnowsItself, DirectoryStaysPrivate, Holding

\* One daemon moves to a step in which it claims no more than before, and the
\* entry, the directory and its own identity stay.
LEMMA QuietStepPreserves ==
  ASSUME ListenerInv, NEW d \in Daemons, NEW next,
         pc' = [pc EXCEPT ![d] = next],
         next \in Holding => pc[d] \in Holding,
         next \in Holding \ {"stat"} => mine'[d] = bound'[d],
         next \in Holding \ {"stat", "chmod"} => entry.mode = "0600",
         next = "serve" => d \in listening',
         next \in Holding \union {"lookup", "bind", "close"} => dir' = "private",
         dir = "private" => dir' = "private",
         entry' = entry,
         DOMAIN bound' = Daemons, DOMAIN mine' = Daemons,
         next \in Holding => bound'[d] = bound[d],
         \A e \in Daemons \ {d} : /\ bound'[e] = bound[e] /\ mine'[e] = mine[e]
                                  /\ e \in listening => e \in listening'
  PROVE  ListenerInv'
<1>1. DOMAIN pc' = Daemons /\ pc'[d] = next /\ \A e \in Daemons \ {d} : pc'[e] = pc[e]
  BY Zenon DEF ListenerInv
<1>2. ASSUME NEW e \in Daemons, pc'[e] \in Holding
      PROVE  pc[e] \in Holding /\ bound'[e] = bound[e]
  BY <1>1, <1>2, Zenon
<1>3. HolderIsAlone'
  BY <1>2, Zenon DEF ListenerInv, HolderIsAlone
<1>4. HolderKnowsItself'
  <2> SUFFICES ASSUME NEW e \in Daemons
               PROVE  /\ pc'[e] \in Holding \ {"stat"} => mine'[e] = bound'[e]
                      /\ pc'[e] \in Holding \ {"stat", "chmod"} => entry'.mode = "0600"
                      /\ pc'[e] = "serve" => e \in listening'
    BY Zenon DEF HolderKnowsItself
  <2>1. CASE e = d
    BY <1>1, <2>1, Zenon
  <2>2. CASE e # d
    BY <1>1, <2>2, ZenonT(60) DEF ListenerInv, HolderKnowsItself
  <2> QED
    BY <2>1, <2>2
<1>5. DirectoryStaysPrivate'
  BY <1>1, Zenon DEF ListenerInv, DirectoryStaysPrivate
<1> QED
  BY <1>1, <1>3, <1>4, <1>5, Zenon DEF ListenerInv

\* A daemon ends: its sockets close and it claims nothing.
LEMMA EndsPreserves ==
  ASSUME ListenerInv, NEW d \in Daemons, Listener!Ends(d), entry' = entry,
         dir = "private" => dir' = "private"
  PROVE  ListenerInv'
<1>1. /\ pc' = [pc EXCEPT ![d] = "off"]
      /\ bound' = [bound EXCEPT ![d] = None] /\ mine' = [mine EXCEPT ![d] = None]
      /\ listening' = listening \ {d}
  BY Zenon DEF Listener!Ends
<1>2. /\ DOMAIN bound' = Daemons /\ DOMAIN mine' = Daemons
      /\ \A e \in Daemons \ {d} : /\ bound'[e] = bound[e] /\ mine'[e] = mine[e]
                                  /\ e \in listening => e \in listening'
  BY <1>1, Zenon DEF ListenerInv
<1>3. "off" \notin Holding \union {"lookup", "bind", "close"} /\ "off" # "serve"
  BY DEF Holding
<1>4. "off" \notin Holding
  BY <1>3, Zenon
<1> QED
  BY <1>1, <1>2, <1>3, <1>4, QuietStepPreserves, Zenon

\* Nobody holds a path that is free.
LEMMA FreeMeansUnheld ==
  ASSUME ListenerInv, entry = None
  PROVE  \A d \in Daemons : pc[d] \notin Holding
BY Zenon DEF ListenerInv, HolderIsAlone

\* One system call of one daemon.
LEMMA ListenerStepPreserves ==
  ASSUME ListenerInv, NEW d \in Daemons, Listener!Step(d)
  PROVE  ListenerInv'
<1>0. DOMAIN bound = Daemons /\ DOMAIN mine = Daemons
  BY Zenon DEF ListenerInv
<1>1. CASE Listener!CreateDirectory(d)
  <2>1. PICK next \in {"restrictDirectory", "validateDirectory"} : pc' = [pc EXCEPT ![d] = next]
    BY <1>1, Zenon DEF Listener!CreateDirectory, Listener!Goto
  <2>2. next \notin Holding /\ next \notin Holding \union {"lookup", "bind", "close"}
        /\ next # "serve"
    BY DEF Holding
  <2>3. dir = "private" => dir' = "private"
    BY <1>1, Zenon DEF Listener!CreateDirectory
  <2>4. UNCHANGED <<entry, bound, mine, listening>>
    BY <1>1, Zenon DEF Listener!CreateDirectory
  <2> QED
    BY <1>0, <2>1, <2>2, <2>3, <2>4, QuietStepPreserves, Zenon
<1>2. CASE Listener!RestrictDirectory(d)
  <2>1. pc' = [pc EXCEPT ![d] = "validateDirectory"] /\ dir' = "private"
        /\ UNCHANGED <<entry, bound, mine, listening>>
    BY <1>2, Zenon DEF Listener!RestrictDirectory, Listener!Goto
  <2>2. "validateDirectory" \notin Holding /\ "validateDirectory" # "serve"
    BY DEF Holding
  <2> QED
    BY <1>0, <2>1, <2>2, QuietStepPreserves, Zenon
<1>3. CASE Listener!ValidateDirectory(d)
  <2>1. CASE dir = "private"
    <3>1. pc' = [pc EXCEPT ![d] = "lookup"] /\ UNCHANGED <<dir, entry, bound, mine, listening>>
      BY <1>3, <2>1, Zenon DEF Listener!ValidateDirectory, Listener!Goto
    <3>2. "lookup" \notin Holding /\ "lookup" # "serve"
      BY DEF Holding
    <3> QED
      BY <1>0, <2>1, <3>1, <3>2, QuietStepPreserves, Zenon
  <2>2. CASE dir # "private"
    BY <1>3, <2>2, EndsPreserves, Zenon DEF Listener!ValidateDirectory
  <2> QED
    BY <2>1, <2>2
<1>4. CASE Listener!RefuseExisting(d)
  <2>1. CASE entry = None
    <3>1. /\ pc[d] = "lookup" /\ pc' = [pc EXCEPT ![d] = "bind"]
          /\ UNCHANGED <<dir, entry, bound, mine, listening>>
      BY <1>4, <2>1, Zenon DEF Listener!RefuseExisting, Listener!Goto
    <3>2. "bind" \notin Holding /\ "bind" # "serve" /\ dir = "private"
      BY <3>1, Zenon DEF Holding, ListenerInv, DirectoryStaysPrivate
    <3> QED
      BY <1>0, <3>1, <3>2, QuietStepPreserves, Zenon
  <2>2. CASE entry # None
    BY <1>4, <2>2, EndsPreserves, Zenon DEF Listener!RefuseExisting
  <2> QED
    BY <2>1, <2>2
<1>5. CASE Listener!Bind(d)
  <2>1. CASE entry = None
    <3>1. PICK i \in Inodes :
            /\ entry' = [inode |-> i, kind |-> "socket", mode |-> "umask"]
            /\ bound' = [bound EXCEPT ![d] = i]
      BY <1>5, <2>1, Zenon DEF Listener!Bind, Listener!FreeInodes
    <3>2. /\ pc[d] = "bind" /\ pc' = [pc EXCEPT ![d] = "stat"]
          /\ UNCHANGED <<dir, mine, listening>>
      BY <1>5, <2>1, Zenon DEF Listener!Bind, Listener!Goto
    <3>3. /\ DOMAIN pc' = Daemons /\ DOMAIN bound' = Daemons /\ DOMAIN mine' = Daemons
          /\ pc'[d] = "stat" /\ bound'[d] = i
          /\ \A e \in Daemons \ {d} : pc'[e] = pc[e]
      BY <3>1, <3>2, Zenon DEF ListenerInv
    <3>4. \A e \in Daemons : pc'[e] \in Holding => e = d
      BY <2>1, <3>3, FreeMeansUnheld, Zenon
    <3>5. entry'.inode = i /\ entry'.kind = "socket" /\ entry' # None /\ entry' \in Entries
      <4>1. entry'.inode = i /\ entry'.kind = "socket" /\ entry' \in Entries
        BY <3>1 DEF Entries
      <4> QED
        BY <4>1, ProcessesAssumption, Zenon DEF Entries
    <3>6. HolderIsAlone'
      BY <3>3, <3>4, <3>5, Zenon DEF HolderIsAlone
    <3>7. HolderKnowsItself'
      <4>1. \A e \in Daemons : pc'[e] \in Holding => pc'[e] = "stat"
        BY <3>3, <3>4, Zenon
      <4>2. "serve" \in Holding
        BY DEF Holding
      <4> QED
        BY <4>1, <4>2, Zenon DEF HolderKnowsItself
    <3>8. DirectoryStaysPrivate'
      <4>1. dir = "private"
        BY <3>2, Zenon DEF ListenerInv, DirectoryStaysPrivate
      <4> QED
        BY <3>2, <4>1, Zenon DEF DirectoryStaysPrivate
    <3> QED
      BY <3>3, <3>5, <3>6, <3>7, <3>8, Zenon DEF ListenerInv
  <2>2. CASE entry # None
    BY <1>5, <2>2, EndsPreserves, Zenon DEF Listener!Bind
  <2> QED
    BY <2>1, <2>2
<1>6. CASE Listener!Stat(d)
  <2>1. CASE entry = None
    BY <1>6, <2>1, EndsPreserves, Zenon DEF Listener!Stat
  <2>2. CASE entry # None
    <3>1. /\ pc[d] = "stat" /\ pc' = [pc EXCEPT ![d] = "chmod"]
          /\ mine' = [mine EXCEPT ![d] = entry.inode]
          /\ UNCHANGED <<dir, entry, bound, listening>>
      BY <1>6, <2>2, Zenon DEF Listener!Stat, Listener!Goto
    <3>2. "chmod" \in Holding /\ "stat" \in Holding /\ "chmod" \notin Holding \ {"stat", "chmod"}
          /\ "chmod" # "serve"
      BY DEF Holding
    <3>3. entry.inode = bound[d] /\ dir = "private"
      BY <3>1, <3>2, Zenon DEF ListenerInv, HolderIsAlone, DirectoryStaysPrivate
    <3>4. /\ DOMAIN mine' = Daemons /\ mine'[d] = bound[d]
          /\ \A e \in Daemons \ {d} : mine'[e] = mine[e]
      BY <1>0, <3>1, <3>3, Zenon
    <3> QED
      BY <1>0, <3>1, <3>2, <3>3, <3>4, QuietStepPreserves, Zenon
  <2> QED
    BY <2>1, <2>2
<1>7. CASE Listener!Chmod(d)
  <2>1. pc[d] = "chmod" /\ pc[d] \in Holding
    BY <1>7, Zenon DEF Listener!Chmod, Holding
  <2>2. entry # None /\ entry.inode = bound[d] /\ entry.kind = "socket" /\ mine[d] = bound[d]
        /\ dir = "private" /\ \A e \in Daemons : pc[e] \in Holding => e = d
    BY <2>1, Zenon DEF ListenerInv, HolderIsAlone, HolderKnowsItself, DirectoryStaysPrivate
  <2>3. /\ entry' = [entry EXCEPT !.mode = "0600"] /\ pc' = [pc EXCEPT ![d] = "validate"]
        /\ UNCHANGED <<dir, bound, mine, listening>>
    BY <1>7, <2>2, Zenon DEF Listener!Chmod, Listener!Goto
  <2>4. /\ DOMAIN pc' = Daemons /\ pc'[d] = "validate"
        /\ \A e \in Daemons \ {d} : pc'[e] = pc[e]
    BY <2>3, Zenon DEF ListenerInv
  <2>5. entry \in Entries
    BY <2>2, Zenon DEF ListenerInv
  <2>6. /\ entry' \in Entries /\ entry'.inode = entry.inode /\ entry'.kind = entry.kind
        /\ entry'.mode = "0600"
    BY <2>3, <2>5 DEF Entries
  <2>7. entry' # None /\ "validate" # "serve"
    BY <2>6, ProcessesAssumption, Zenon DEF Entries
  <2>8. \A e \in Daemons : pc'[e] \in Holding => e = d
    BY <2>1, <2>2, <2>4, Zenon
  <2>9. "serve" \in Holding
    BY DEF Holding
  <2>10. HolderIsAlone'
    BY <2>2, <2>3, <2>6, <2>7, <2>8, Zenon DEF HolderIsAlone
  <2>11. HolderKnowsItself'
    BY <2>2, <2>3, <2>4, <2>6, <2>7, <2>8, <2>9, ZenonT(60) DEF HolderKnowsItself
  <2>12. DirectoryStaysPrivate'
    BY <2>2, <2>3, Zenon DEF DirectoryStaysPrivate
  <2> QED
    BY <1>0, <2>3, <2>4, <2>6, <2>10, <2>11, <2>12, Zenon DEF ListenerInv
<1>8. CASE Listener!Validate(d)
  <2>1. pc[d] = "validate" /\ pc[d] \in Holding \ {"stat", "chmod"}
    BY <1>8, Zenon DEF Listener!Validate, Holding
  <2>2. PICK next \in {"listen", "drop"} : pc' = [pc EXCEPT ![d] = next]
    BY <1>8, Zenon DEF Listener!Validate, Listener!Goto
  <2>3. UNCHANGED <<dir, entry, bound, mine, listening>> /\ next # "serve"
    BY <1>8, Zenon DEF Listener!Validate
  <2>4. pc[d] \in Holding /\ mine[d] = bound[d] /\ entry.mode = "0600" /\ dir = "private"
    BY <2>1, Zenon DEF ListenerInv, HolderKnowsItself, DirectoryStaysPrivate
  <2> QED
    BY <1>0, <2>2, <2>3, <2>4, QuietStepPreserves, Zenon
<1>9. CASE Listener!Listen(d)
  <2>1. /\ pc[d] = "listen" /\ pc' = [pc EXCEPT ![d] = "serve"]
        /\ listening' = listening \union {d} /\ UNCHANGED <<dir, entry, bound, mine>>
    BY <1>9, Zenon DEF Listener!Listen, Listener!Goto
  <2>2. pc[d] \in Holding \ {"stat", "chmod"}
    BY <2>1, Zenon DEF Holding
  <2>3. pc[d] \in Holding /\ mine[d] = bound[d] /\ entry.mode = "0600" /\ dir = "private"
    BY <2>2, Zenon DEF ListenerInv, HolderKnowsItself, DirectoryStaysPrivate
  <2> QED
    BY <1>0, <2>1, <2>3, QuietStepPreserves, Zenon
<1>10. CASE Listener!Leave(d)
  <2>1. /\ pc[d] = "serve" /\ pc' = [pc EXCEPT ![d] = "drop"]
        /\ UNCHANGED <<dir, entry, bound, mine, listening>>
    BY <1>10, Zenon DEF Listener!Leave, Listener!Goto
  <2>2. pc[d] \in Holding \ {"stat", "chmod"} /\ "drop" # "serve"
    BY <2>1, Zenon DEF Holding
  <2>3. pc[d] \in Holding /\ mine[d] = bound[d] /\ entry.mode = "0600" /\ dir = "private"
    BY <2>2, Zenon DEF ListenerInv, HolderKnowsItself, DirectoryStaysPrivate
  <2> QED
    BY <1>0, <2>1, <2>2, <2>3, QuietStepPreserves, Zenon
<1>11. CASE Listener!CheckBeforeRemove(d)
  <2>1. CASE Listener!OwnedSocket(d)
    <3>1. /\ pc[d] = "drop" /\ pc' = [pc EXCEPT ![d] = "remove"]
          /\ UNCHANGED <<dir, entry, bound, mine, listening>>
      BY <1>11, <2>1, Zenon DEF Listener!CheckBeforeRemove, Listener!Goto
    <3>2. pc[d] \in Holding \ {"stat", "chmod"} /\ "remove" # "serve"
      BY <3>1, Zenon DEF Holding
    <3>3. pc[d] \in Holding /\ mine[d] = bound[d] /\ entry.mode = "0600" /\ dir = "private"
      BY <3>2, Zenon DEF ListenerInv, HolderKnowsItself, DirectoryStaysPrivate
    <3> QED
      BY <1>0, <3>1, <3>2, <3>3, QuietStepPreserves, Zenon
  <2>2. CASE ~ Listener!OwnedSocket(d)
    BY <1>11, <2>2, EndsPreserves, Zenon DEF Listener!CheckBeforeRemove
  <2> QED
    BY <2>1, <2>2
<1>12. CASE Listener!Remove(d)
  <2>1. /\ pc[d] = "remove" /\ pc' = [pc EXCEPT ![d] = "close"] /\ entry' = None
        /\ UNCHANGED <<dir, bound, mine, listening>>
    BY <1>12, Zenon DEF Listener!Remove, Listener!Goto
  <2>2. pc[d] \in Holding /\ "close" \notin Holding /\ "serve" \in Holding
    BY <2>1, Zenon DEF Holding
  <2>3. dir = "private" /\ \A e \in Daemons : pc[e] \in Holding => e = d
    BY <2>2, Zenon DEF ListenerInv, HolderIsAlone, DirectoryStaysPrivate
  <2>4. DOMAIN pc' = Daemons /\ pc'[d] = "close" /\ \A e \in Daemons \ {d} : pc'[e] = pc[e]
    BY <2>1, Zenon DEF ListenerInv
  <2>5. \A e \in Daemons : pc'[e] \notin Holding
    BY <2>2, <2>3, <2>4, Zenon
  <2> QED
    BY <1>0, <2>1, <2>2, <2>3, <2>4, <2>5, Zenon
       DEF ListenerInv, HolderIsAlone, HolderKnowsItself, DirectoryStaysPrivate
<1>13. CASE Listener!Close(d)
  BY <1>13, EndsPreserves, Zenon DEF Listener!Close
<1> QED
  BY <1>1, <1>2, <1>3, <1>4, <1>5, <1>6, <1>7, <1>8, <1>9, <1>10, <1>11, <1>12, <1>13, Zenon
     DEF Listener!Step

\* A kill, the operator and other programs.
LEMMA OthersPreserve ==
  ASSUME ListenerInv,
         (\E d \in Daemons : Listener!Crash(d)) \/ Listener!OperatorCleans \/ Listener!FileAppears
  PROVE  ListenerInv'
<1>1. CASE \E d \in Daemons : Listener!Crash(d)
  BY <1>1, EndsPreserves, Zenon DEF Listener!Crash
<1>2. CASE Listener!OperatorCleans \/ Listener!FileAppears
  <2>1. UNCHANGED <<pc, bound, mine, listening>> /\ (dir = "private" => dir' = "private")
    BY <1>2, Zenon DEF Listener!OperatorCleans, Listener!FileAppears
  <2>2. CASE entry' = entry
    BY <2>1, <2>2, Zenon
       DEF ListenerInv, HolderIsAlone, HolderKnowsItself, DirectoryStaysPrivate
  <2>3. CASE entry' # entry
    <3>1. entry = None \/ \A d \in Daemons : bound[d] # entry.inode
      BY <1>2, <2>3, Zenon DEF Listener!OperatorCleans, Listener!FileAppears
    <3>2. \A d \in Daemons : pc[d] \notin Holding
      BY <3>1, Zenon DEF ListenerInv, HolderIsAlone
    <3>3. entry' \in Entries \union {None}
      <4>1. CASE Listener!OperatorCleans
        BY <2>3, <4>1, Zenon DEF Listener!OperatorCleans
      <4>2. CASE Listener!FileAppears
        BY <4>2 DEF Listener!FileAppears, Listener!FreeInodes, Entries
      <4> QED
        BY <1>2, <4>1, <4>2
    <3>4. "serve" \in Holding
      BY DEF Holding
    <3> QED
      BY <2>1, <3>2, <3>3, <3>4, Zenon
         DEF ListenerInv, HolderIsAlone, HolderKnowsItself, DirectoryStaysPrivate
  <2> QED
    BY <2>2, <2>3
<1> QED
  BY <1>1, <1>2, Zenon

-----------------------------------------------------------------------------
(* All of them beside one another.                                         *)

ProcessesInv == ApprovalInv /\ ListenerInv

\* The approval and the listener keep their invariants, whichever moves.
LEMMA ProcessesStep ==
  ASSUME ProcessesInv, [ProcessesNext]_processVars
  PROVE  ProcessesInv'
<1>1. CASE UNCHANGED approvalVars
  <2>1. ApprovalInv'
    <3>1. ApprovalTypes'
      BY <1>1, Zenon DEF approvalVars, ProcessesInv, ApprovalInv, ApprovalTypes
    <3> QED
      BY <1>1, <3>1, Zenon DEF approvalVars, ProcessesInv, ApprovalInv, WindowStages,
         NothingUnread, EndIsFinal, DecisionWasRead, Approval!Message
  <2>2. CASE UNCHANGED listenerVars
    BY <2>1, <2>2, Zenon DEF listenerVars, ProcessesInv, ListenerInv, HolderIsAlone,
       HolderKnowsItself, DirectoryStaysPrivate
  <2>3. CASE Listener!Next
    BY <2>1, <2>3, ListenerStepPreserves, OthersPreserve, Zenon DEF ProcessesInv, Listener!Next
  <2> QED
    BY <2>2, <2>3, Zenon DEF ProcessesNext, processVars, listenerVars
<1>2. CASE Approval!Next /\ UNCHANGED listenerVars
  <2>1. ApprovalInv'
    BY <1>2, ParentPreserves, WindowPreserves, Zenon DEF ProcessesInv, Approval!Next
  <2> QED
    BY <1>2, <2>1, Zenon DEF listenerVars, ProcessesInv, ListenerInv, HolderIsAlone,
       HolderKnowsItself, DirectoryStaysPrivate
<1> QED
  BY <1>1, <1>2, Zenon DEF ProcessesNext, Decided, processVars

\* DecisionIsTheWholeAnswer, for any prompts, decisions and limits, whatever the
\* window and its helper do: run and interact (approver.rs) return a decision
\* only if it is everything that was ever written to the pipe, and leave no
\* window behind.
THEOREM DecisionsAreWhole == ProcessesSpec => []DecisionIsTheWholeAnswer
<1>1. ProcessesInit => ProcessesInv
  BY ApprovalInitially, ListenerInitially, Zenon DEF ProcessesInit, ProcessesInv
<1>2. ProcessesInv /\ [ProcessesNext]_processVars => ProcessesInv'
  BY ProcessesStep
<1>3. ProcessesInv => DecisionIsTheWholeAnswer
  BY ApprovalSafe DEF ProcessesInv
<1> QED
  BY <1>1, <1>2, <1>3, PTL DEF ProcessesSpec

\* ListenerOwnsThePath, for any number of daemons, inodes and kills: a daemon
\* that accepts (ConsentListener::bind, Drop) owns the path, alone.
THEOREM OneListener == ProcessesSpec => []ListenerOwnsThePath
<1>1. ProcessesInit => ProcessesInv
  BY ApprovalInitially, ListenerInitially, Zenon DEF ProcessesInit, ProcessesInv
<1>2. ProcessesInv /\ [ProcessesNext]_processVars => ProcessesInv'
  BY ProcessesStep
<1>3. ProcessesInv => ListenerOwnsThePath
  BY ListenerSafe DEF ProcessesInv
<1> QED
  BY <1>1, <1>2, <1>3, PTL DEF ProcessesSpec
=============================================================================
