--------------------------- MODULE PersonaAuthority ---------------------------
(***************************************************************************)
(* What the persona store promises, without its tables: who may sign for a *)
(* persona.  Before the persona has a continuity root nobody does in the   *)
(* sense of this module.  From then on one key holds the authority.  It    *)
(* passes, in one step, to a key that never held it and was never retired, *)
(* or it ends for good.  A key that gave it up never gets it back.         *)
(***************************************************************************)
CONSTANTS Keys, None

VARIABLES
    holder,   \* the key that holds the authority, or None
    spent,    \* keys that can never hold it (again)
    ended     \* whether the persona was terminally revoked

authorityVars == <<holder, spent, ended>>

Init ==
    /\ holder \in Keys \cup {None}
    /\ spent = {}
    /\ ended = FALSE

\* Keys come and go while nothing depends on them.
Prepare ==
    /\ holder = None /\ ~ ended
    /\ spent \subseteq spent' /\ spent' \subseteq Keys
    /\ UNCHANGED <<holder, ended>>

Establish(k) ==
    /\ holder = None /\ ~ ended
    /\ k \notin spent
    /\ holder' = k
    /\ UNCHANGED <<spent, ended>>

HandOver(k) ==
    /\ holder # None
    /\ k \notin spent \cup {holder}
    /\ holder' = k
    /\ spent' = spent \cup {holder}
    /\ UNCHANGED ended

End ==
    /\ holder # None
    /\ holder' = None
    /\ spent' = spent \cup {holder}
    /\ ended' = TRUE

Next ==
    \/ Prepare
    \/ \E k \in Keys : Establish(k) \/ HandOver(k)
    \/ End

Spec == Init /\ [][Next]_authorityVars
=============================================================================
