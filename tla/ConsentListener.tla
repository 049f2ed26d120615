--------------------------- MODULE ConsentListener ---------------------------
(***************************************************************************)
(* listener.rs: how a daemon takes and gives up the path consent.sock.     *)
(* Several daemons may be started over the same runtime directory, by      *)
(* hand or by the user manager; any of them may be killed between two      *)
(* system calls; an operator removes a stale socket by hand, as DAEMON.md  *)
(* asks, once no daemon owns it.  Every step is one system call.           *)
(***************************************************************************)
EXTENDS Naturals

CONSTANTS
    Daemons,
    Inodes,      \* inode numbers; a free one may be used again
    MaxCrashes,  \* bound on kills
    MaxOutside,  \* bound on the operator's and the user's own actions
    None

VARIABLES
    dir,      \* the a-quo directory: "absent", "open" (not yet 0700), "private"
    entry,    \* what consent.sock names: None or [inode, kind, mode]
    pc,       \* daemon -> its next step
    bound,    \* daemon -> the inode its open socket is bound to
    mine,     \* daemon -> socket_device and socket_inode of its ConsentListener
    listening,\* daemons whose socket listens
    crashes, outside

vars == <<dir, entry, pc, bound, mine, listening, crashes, outside>>

Running(d) == pc[d] # "off"

Goto(d, step) == pc' = [pc EXCEPT ![d] = step]

\* The process ends: its sockets close, the entry stays.
Ends(d) ==
    /\ pc' = [pc EXCEPT ![d] = "off"]
    /\ bound' = [bound EXCEPT ![d] = None]
    /\ mine' = [mine EXCEPT ![d] = None]
    /\ listening' = listening \ {d}

\* prepare_app_directory: create_dir; an existing one is only validated.
CreateDirectory(d) ==
    /\ pc[d] = "off"
    /\ IF dir = "absent"
       THEN dir' = "open" /\ Goto(d, "restrictDirectory")
       ELSE Goto(d, "validateDirectory") /\ UNCHANGED dir
    /\ UNCHANGED <<entry, bound, mine, listening, crashes, outside>>

RestrictDirectory(d) ==
    /\ pc[d] = "restrictDirectory"
    /\ dir' = "private"
    /\ Goto(d, "validateDirectory")
    /\ UNCHANGED <<entry, bound, mine, listening, crashes, outside>>

\* validate_private_directory: no group or world permissions.
ValidateDirectory(d) ==
    /\ pc[d] = "validateDirectory"
    /\ IF dir = "private"
       THEN Goto(d, "lookup") /\ UNCHANGED <<bound, mine, listening>>
       ELSE Ends(d)
    /\ UNCHANGED <<dir, entry, crashes, outside>>

\* ConsentListener::bind: any entry at the path ends the attempt.
RefuseExisting(d) ==
    /\ pc[d] = "lookup"
    /\ IF entry = None
       THEN Goto(d, "bind") /\ UNCHANGED <<bound, mine, listening>>
       ELSE Ends(d)
    /\ UNCHANGED <<dir, entry, crashes, outside>>

FreeInodes ==
    {i \in Inodes : (\A d \in Daemons : bound[d] # i) /\ (entry = None \/ entry.inode # i)}

\* bind(2) creates the entry, with the mode the umask leaves, or fails with
\* EADDRINUSE if somebody was faster.
Bind(d) ==
    /\ pc[d] = "bind"
    /\ IF entry = None
       THEN /\ \E i \in FreeInodes :
                 /\ entry' = [inode |-> i, kind |-> "socket", mode |-> "umask"]
                 /\ bound' = [bound EXCEPT ![d] = i]
            /\ Goto(d, "stat")
            /\ UNCHANGED <<mine, listening>>
       ELSE Ends(d) /\ UNCHANGED entry
    /\ UNCHANGED <<dir, crashes, outside>>

SlipModeLeftToTheUmask(d) ==
    /\ pc[d] = "stat"
    /\ mine' = [mine EXCEPT ![d] = entry.inode]
    /\ Goto(d, "listen")
    /\ UNCHANGED <<dir, entry, bound, listening, crashes, outside>>

\* symlink_metadata after bind: the identity the listener keeps.
Stat(d) ==
    /\ pc[d] = "stat"
    /\ IF entry = None
       THEN Ends(d)
       ELSE /\ mine' = [mine EXCEPT ![d] = entry.inode]
            /\ Goto(d, "chmod")
            /\ UNCHANGED <<bound, listening>>
    /\ UNCHANGED <<dir, entry, crashes, outside>>

\* finish_bind, first call; an error drops the listener.
Chmod(d) ==
    /\ pc[d] = "chmod"
    /\ IF entry = None
       THEN Goto(d, "drop") /\ UNCHANGED entry
       ELSE entry' = [entry EXCEPT !.mode = "0600"] /\ Goto(d, "validate")
    /\ UNCHANGED <<dir, bound, mine, listening, crashes, outside>>

\* validate_owned_socket: socket, same inode, not accessible to others.
OwnedSocket(d) ==
    /\ entry # None
    /\ entry.kind = "socket"
    /\ entry.inode = mine[d]
    /\ entry.mode = "0600"

Validate(d) ==
    /\ pc[d] = "validate"
    /\ Goto(d, IF OwnedSocket(d) THEN "listen" ELSE "drop")
    /\ UNCHANGED <<dir, entry, bound, mine, listening, crashes, outside>>

Listen(d) ==
    /\ pc[d] = "listen"
    /\ listening' = listening \union {d}
    /\ Goto(d, "serve")
    /\ UNCHANGED <<dir, entry, bound, mine, crashes, outside>>

\* main returns when accept fails, and the listener is dropped.
Leave(d) ==
    /\ pc[d] = "serve"
    /\ Goto(d, "drop")
    /\ UNCHANGED <<dir, entry, bound, mine, listening, crashes, outside>>

\* Drop: remove the path if it is still this listener's socket.
CheckBeforeRemove(d) ==
    /\ pc[d] = "drop"
    /\ IF OwnedSocket(d)
       THEN Goto(d, "remove") /\ UNCHANGED <<bound, mine, listening>>
       ELSE Ends(d)
    /\ UNCHANGED <<dir, entry, crashes, outside>>

Remove(d) ==
    /\ pc[d] = "remove"
    /\ entry' = None
    /\ Goto(d, "close")
    /\ UNCHANGED <<dir, bound, mine, listening, crashes, outside>>

\* The socket itself closes after the path is free.
Close(d) ==
    /\ pc[d] = "close"
    /\ Ends(d)
    /\ UNCHANGED <<dir, entry, crashes, outside>>

\* A kill, at any point.
Crash(d) ==
    /\ Running(d) /\ crashes < MaxCrashes
    /\ crashes' = crashes + 1
    /\ Ends(d)
    /\ UNCHANGED <<dir, entry, outside>>

\* The operator removes an entry no daemon owns, or mends the directory.
OperatorCleans ==
    /\ outside < MaxOutside
    /\ \/ /\ entry # None /\ \A d \in Daemons : bound[d] # entry.inode
          /\ entry' = None /\ UNCHANGED dir
       \/ /\ dir = "open" /\ dir' = "private" /\ UNCHANGED entry
    /\ outside' = outside + 1
    /\ UNCHANGED <<pc, bound, mine, listening, crashes>>

\* Somebody puts a file of their own at the free path.
FileAppears ==
    /\ outside < MaxOutside
    /\ dir = "private" /\ entry = None
    /\ \E i \in FreeInodes : entry' = [inode |-> i, kind |-> "file", mode |-> "0600"]
    /\ outside' = outside + 1
    /\ UNCHANGED <<dir, pc, bound, mine, listening, crashes>>

Step(d) ==
    \/ CreateDirectory(d) \/ RestrictDirectory(d) \/ ValidateDirectory(d)
    \/ RefuseExisting(d) \/ Bind(d) \/ Stat(d) \/ Chmod(d) \/ Validate(d)
    \/ Listen(d) \/ Leave(d) \/ CheckBeforeRemove(d) \/ Remove(d) \/ Close(d)

Init ==
    /\ dir = "absent" /\ entry = None
    /\ pc = [d \in Daemons |-> "off"]
    /\ bound = [d \in Daemons |-> None] /\ mine = [d \in Daemons |-> None]
    /\ listening = {} /\ crashes = 0 /\ outside = 0

Next == (\E d \in Daemons : Step(d) \/ Crash(d)) \/ OperatorCleans \/ FileAppears

Spec == Init /\ [][Next]_vars

-----------------------------------------------------------------------------
(* Properties                                                              *)

\* While a daemon accepts connections, the path names its own listening
\* socket, accessible to the user alone, in a private directory.  Two daemons
\* never accept at once.
ListenerOwnsThePath ==
    \A d \in Daemons : pc[d] = "serve" =>
        /\ d \in listening /\ dir = "private"
        /\ entry # None
        /\ entry.inode = bound[d] /\ entry.kind = "socket" /\ entry.mode = "0600"
        /\ \A e \in Daemons : pc[e] = "serve" => e = d

=============================================================================
