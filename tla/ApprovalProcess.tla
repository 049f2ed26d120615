--------------------------- MODULE ApprovalProcess ---------------------------
(***************************************************************************)
(* approver.rs: the daemon asks its question by running the consent window *)
(* as a child process, writing the prompt to its standard input and        *)
(* reading one decision from its standard output, with a deadline.         *)
(*                                                                         *)
(* The window is another program.  It may write its answer in pieces,      *)
(* write nothing or too much, answer another question, exit with either    *)
(* status, hang, close its output early, or leave a helper behind that     *)
(* still holds the pipe.  The parent polls: it drains the pipe, asks       *)
(* whether the child has exited, and looks at its deadline.                *)
(***************************************************************************)
EXTENDS Integers, Sequences

CONSTANTS
    Decisions,          \* "Approve", "Decline", "Cancel"
    Prompts,            \* request ids a window might answer
    Asked,              \* the request id of the prompt that is written
    MAX_MESSAGE_CHUNKS, \* MAX_MESSAGE_BYTES, in chunks; a decision has two
    MaxWritten,         \* bound on the chunks a window writes
    None

VARIABLES
    pc,        \* what the parent does next
    response,  \* chunks read so far
    eof,       \* whether the last read met the end of the pipe
    result,    \* None, a decision, or an ApprovalError
    expired,   \* the deadline has passed
    child,     \* "none", "running", "exited", "reaped"
    status,    \* the child's exit status once it has exited
    writers,   \* processes that hold the write end: "child", "helper"
    pipe,      \* chunks written and not yet read
    written    \* every chunk ever written

parentVars == <<pc, response, eof, result>>
windowVars == <<status, writers, written>>
vars == <<parentVars, windowVars, expired, child, pipe>>

\* A decision on the wire, in two chunks.
Message(id, d) == <<[id |-> id, decision |-> d, half |-> 1],
                    [id |-> id, decision |-> d, half |-> 2]>>

Chunks == {Message(id, d)[h] : id \in Prompts, d \in Decisions, h \in 1..2}

\* decode_decision: exactly one whole message.
Decodes(bytes) == \E id \in Prompts, d \in Decisions : bytes = Message(id, d)

-----------------------------------------------------------------------------
(* The parent                                                              *)

\* ProcessApprovalBackend::run: spawn in a process group of its own.
Spawn ==
    /\ pc = "spawn"
    /\ \/ /\ result' = "Unavailable" /\ pc' = "done"
          /\ UNCHANGED <<child, writers>>
       \/ /\ child' = "running" /\ writers' = {"child"}
          /\ pc' = "write"
          /\ UNCHANGED result
    /\ UNCHANGED <<response, eof, status, written, expired, pipe>>

\* An error return of interact; run then terminates the child.
Fail(error) ==
    /\ result' = error
    /\ pc' = "terminate"

\* write_prompt fits the pipe; it fails if the window already closed its end.
WritePrompt ==
    /\ pc = "write"
    /\ \/ Fail("Failed")
       \/ pc' = "read" /\ UNCHANGED result
    /\ UNCHANGED <<response, eof, child, status, writers, written, expired, pipe>>

\* read_available: everything there is, up to the bound on a message.
Drain(next) ==
    /\ pipe' = <<>>
    /\ eof' = (writers = {} \/ (next = "conclude" /\ eof))
    /\ IF Len(response) + Len(pipe) > MAX_MESSAGE_CHUNKS
       THEN Fail("Failed") /\ UNCHANGED response
       ELSE /\ response' = response \o pipe
            /\ pc' = next
            /\ UNCHANGED result
    /\ UNCHANGED <<child, status, writers, written, expired>>

ReadAvailable == pc = "read" /\ Drain("wait")

SlipNoDeadline ==
    /\ pc = "wait"
    /\ \/ child = "exited" /\ child' = "reaped" /\ pc' = "readAgain"
       \/ child = "running" /\ pc' = "read" /\ UNCHANGED child
    /\ UNCHANGED <<result, response, eof, status, writers, written, expired, pipe>>

\* try_wait reaps an exited child; otherwise the deadline decides.
TryWait ==
    /\ pc = "wait"
    /\ \/ /\ child = "exited" /\ child' = "reaped"
          /\ pc' = "readAgain"
          /\ UNCHANGED result
       \/ /\ child = "running"
          /\ IF expired THEN Fail("TimedOut") ELSE pc' = "read" /\ UNCHANGED result
          /\ UNCHANGED child
    /\ UNCHANGED <<response, eof, status, writers, written, expired, pipe>>

ReadAgain == pc = "readAgain" /\ Drain("conclude")

SlipPartialOutputAccepted ==
    status = "success" /\ Decodes(response) /\ response[1].id = Asked

\* The answer counts: clean exit, end of the pipe, one message, this request.
AnswerAccepted ==
    /\ status = "success"
    /\ eof
    /\ Decodes(response)
    /\ response[1].id = Asked

Conclude ==
    /\ pc = "conclude"
    /\ IF AnswerAccepted
       THEN result' = response[1].decision /\ pc' = "done"
       ELSE Fail("Failed")
    /\ UNCHANGED <<response, eof, child, status, writers, written, expired, pipe>>

\* terminate_and_reap: kill the whole group unless the child is gone, wait.
Terminate ==
    /\ pc = "terminate"
    /\ child' = "reaped"
    /\ writers' = IF child = "running" THEN {} ELSE writers
    /\ status' = IF child = "running" THEN "failure" ELSE status
    /\ pc' = "done"
    /\ UNCHANGED <<response, eof, result, written, expired, pipe>>

Parent ==
    \/ Spawn \/ WritePrompt \/ ReadAvailable \/ TryWait \/ ReadAgain
    \/ Conclude \/ Terminate

-----------------------------------------------------------------------------
(* The window and the clock                                                *)

\* The window or its helper writes a chunk.
Write ==
    /\ writers # {} /\ child # "none" /\ Len(written) < MaxWritten
    /\ \E chunk \in Chunks :
         pipe' = Append(pipe, chunk) /\ written' = Append(written, chunk)
    /\ UNCHANGED <<parentVars, status, writers, child, expired>>

\* It exits, closes its output, or leaves a helper holding the pipe.
WindowActs ==
    /\ child = "running"
    /\ \/ /\ child' = "exited" /\ status' \in {"success", "failure"}
          /\ writers' = writers \ {"child"}
       \/ /\ "child" \in writers
          /\ writers' \in {writers \ {"child"}, writers \union {"helper"}}
          /\ UNCHANGED <<child, status>>
    /\ UNCHANGED <<parentVars, written, expired, pipe>>

HelperEnds ==
    /\ "helper" \in writers
    /\ writers' = writers \ {"helper"}
    /\ UNCHANGED <<parentVars, child, status, written, expired, pipe>>

DeadlinePasses ==
    /\ ~expired /\ child # "none"
    /\ expired' = TRUE
    /\ UNCHANGED <<parentVars, windowVars, child, pipe>>

Init ==
    /\ pc = "spawn" /\ response = <<>> /\ eof = FALSE /\ result = None
    /\ expired = FALSE
    /\ child = "none" /\ status = None /\ writers = {}
    /\ pipe = <<>> /\ written = <<>>

Next == Parent \/ Write \/ WindowActs \/ HelperEnds \/ DeadlinePasses

\* The parent keeps running and time passes; nothing is assumed of the window.
Spec == Init /\ [][Next]_vars /\ WF_vars(Parent) /\ WF_vars(DeadlinePasses)

-----------------------------------------------------------------------------
(* Properties                                                              *)

\* run and interact.  A decision is returned only if the window exited cleanly
\* and everything it or its helper ever wrote is that one decision for this
\* request: no prefix of a longer output, nothing written after the parent
\* looked.  Whatever is returned, no window is left on the screen.
DecisionIsTheWholeAnswer ==
    /\ result \in Decisions =>
        status = "success" /\ writers = {} /\ written = Message(Asked, result)
    /\ pc = "done" => child = "reaped" \/ (child = "none" /\ result = "Unavailable")
=============================================================================
