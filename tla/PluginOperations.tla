-------------------------- MODULE PluginOperations ---------------------------
(***************************************************************************)
(* Installs, updates and removals of one plugin that run at the same time, *)
(* are killed, and share the directories with the user's own programs.     *)
(* Each operation is one action per file-system step or check, so that     *)
(* other operations and programs run in between.                           *)
(*                                                                         *)
(* What the three share comes first: the directories they work on, the     *)
(* publisher rows of the persona store and the store's write lock.  The    *)
(* plugins path names one of two directories, so that a replacement of the *)
(* path can be told from the directory an operation has pinned.  Each      *)
(* operation has one directory of its own beside the plugins (staging,     *)
(* update recovery or removal quarantine) with at most one entry, plugin.  *)
(* A tree is a directory identity (device and inode) with contents; an     *)
(* open descriptor keeps naming its tree whatever happens to names.        *)
(***************************************************************************)
EXTENDS Integers, FiniteSets

CONSTANTS
    Ops,          \* operations that run, each an identity of its own
    Kind,         \* operation -> "install", "update", "remove"
    Package,      \* operation -> [version, key, valid], what it is given
    Keys, Persona,\* publisher keys and the persona each belongs to
    OldVersion, OldKey, \* the release that is installed to begin with
    Installed,    \* whether there is one
    MaxOutside,   \* bound on steps of the user and other programs
    MaxCrashes,   \* bound on operations that are killed
    None

VARIABLES
    plugins,   \* the directory the plugins path names
    live,      \* directory -> the tree under the plugin's id, or None
    place,     \* operation -> the directory that holds its own directory
    child,     \* operation -> the tree under plugin in its own directory
    private,   \* operation -> whether its own directory has mode 0700
    content,   \* tree -> what it contains, None if there is no such tree
    config,    \* what shell.json says: "unreferenced", "referenced", "invalid"
    standing,  \* key -> its row in the store
    lock,      \* the operation that holds the store's write transaction
    pc,        \* operation -> its next step
    job,       \* operation -> what it has read and pinned
    outcome,   \* operation -> how it ended
    outside, crashes,
    aside      \* trees other programs have moved away

fsVars == <<plugins, live, place, child, private, content>>
opVars == <<pc, job, outcome>>
countVars == <<outside, crashes, aside>>
vars == <<fsVars, config, standing, lock, opVars, countVars>>

Directories == {"plugins", "other"}

\* The trees there can be: the release installed to begin with, the one each
\* operation extracts, one of somebody else.
Candidate(o) == <<"candidate", o>>
Trees == {<<"old", None>>, <<"foreign", None>>} \union {Candidate(o) : o \in Ops}
Old == <<"old", None>>
Foreign == <<"foreign", None>>

\* A tree: the release in it, the receipt beside it, what was changed since.
Tree(package, receipt) ==
    [package |-> package, receipt |-> receipt, edited |-> FALSE, git |-> FALSE]

\* build_receipt_for_artifact.
Receipt(package, persona) == [version |-> package.version, persona |-> persona]

NoJob == [plugins |-> None, persona |-> None, snapshot |-> None,
          installed |-> None, baseline |-> None]

At(o, kind, step) == Kind[o] = kind /\ pc[o] = step

Goto(o, step) == pc' = [pc EXCEPT ![o] = step]

\* An operation ends, saying how and at which paths it revalidated which trees
\* ("live", or "own" for its own directory); its descriptors close.
Ends(o, how, where) ==
    /\ pc' = [pc EXCEPT ![o] = "done"]
    /\ outcome' = [outcome EXCEPT ![o] = [how |-> how, where |-> where]]
    /\ UNCHANGED job

Continues(o, step) == Goto(o, step) /\ UNCHANGED <<job, outcome>>

-----------------------------------------------------------------------------
(* tree.rs: identities and snapshots                                       *)

\* target_identity of the plugin's path: the tree it leads to just now.
PathTarget == live[plugins]

\* target_identity of an operation's own directory, through the plugins path.
OwnPathHolds(o) == place[o] = plugins

\* open_pinned_directory_at below the pinned plugins directory.
PinnedTarget(o) == live[job[o].plugins]
PinnedOwnHolds(o) == place[o] = job[o].plugins

\* target_identity of the plugins path against the pinned directory.
PluginsPathHolds(o) == plugins = job[o].plugins

\* snapshot_update_tree_descriptor against an earlier snapshot.
TreeHolds(tree, snapshot) == content[tree] # None /\ content[tree] = snapshot

\* reject_git_managed_target, read_*_manifest, read_*_receipt and
\* validate_installed_state: a release A Quo installed, as its receipt says.
Managed(tree) ==
    /\ content[tree] # None
    /\ ~content[tree].git
    /\ content[tree].receipt # None
    /\ content[tree].receipt.version = content[tree].package.version

-----------------------------------------------------------------------------
(* authorization.rs and PersonaStore::with_active_key_authorization        *)

\* publisher_evidence, require_installable_publisher and publisher_persona_id.
Installable(key) == standing[key] = "active"

\* The IMMEDIATE transaction opens, and the publisher still has authority and
\* still is the persona the operation looked up.
AuthorizationHolds(o) ==
    /\ standing[Package[o].key] = "active"
    /\ Persona[Package[o].key] = job[o].persona

\* A variant that looks the publisher up without keeping the transaction open.
SlipLookupOnly(o, next, refusal, where) ==
    /\ IF AuthorizationHolds(o) THEN Continues(o, next) ELSE Ends(o, refusal, where)
    /\ UNCHANGED lock

\* with_final_publisher_operation up to the operation: the lock, or a refusal
\* (also when the database stays busy).
TakeAuthorization(o, next, refusal, where) ==
    \/ /\ lock = None /\ AuthorizationHolds(o)
       /\ lock' = o
       /\ Continues(o, next)
    \/ /\ lock # None \/ ~AuthorizationHolds(o)
       /\ Ends(o, refusal, where)
       /\ UNCHANGED lock

ReleaseLock(o) == lock' = IF lock = o THEN None ELSE lock

-----------------------------------------------------------------------------
(* reference.rs                                                            *)

\* reject_stale_enabled_configuration and reject_referenced_removal.
Unreferenced == config = "unreferenced"

-----------------------------------------------------------------------------
(* The user, the shell and other programs                                  *)

Edited(t) ==
    {[t EXCEPT !.edited = TRUE], [t EXCEPT !.git = TRUE], [t EXCEPT !.receipt = None]}

\* Files change, entries and directories move, the configuration changes.
OutsideFiles ==
    /\ outside < MaxOutside
    /\ \/ \E t \in {u \in Trees : content[u] # None} :
            /\ content' \in {[content EXCEPT ![t] = e] : e \in Edited(content[t]) \ {content[t]}}
            /\ UNCHANGED <<plugins, live, place, child, private, aside>>
       \/ \E d \in Directories :
            /\ live[d] # None
            /\ live' = [live EXCEPT ![d] = None] /\ aside' = aside \union {live[d]}
            /\ UNCHANGED <<plugins, place, child, private, content>>
       \/ /\ live[plugins] = None /\ content[Foreign] = None
          /\ live' = [live EXCEPT ![plugins] = Foreign]
          /\ content' = [content EXCEPT ![Foreign] = Tree([version |-> 0, key |-> None, valid |-> FALSE], None)]
          /\ UNCHANGED <<plugins, place, child, private, aside>>
       \/ \E d \in Directories \ {plugins} :
            plugins' = d /\ UNCHANGED <<live, place, child, private, content, aside>>
       \/ \E o \in Ops :
            /\ place[o] # None
            /\ \/ place' = [place EXCEPT ![o] = None] /\ UNCHANGED private
               \/ private[o] /\ private' = [private EXCEPT ![o] = FALSE] /\ UNCHANGED place
            /\ UNCHANGED <<plugins, live, child, content, aside>>
    /\ outside' = outside + 1
    /\ UNCHANGED <<config, standing, lock, opVars, crashes>>

OutsideConfig ==
    /\ outside < MaxOutside
    /\ config' \in {"unreferenced", "referenced", "invalid"} \ {config}
    /\ outside' = outside + 1
    /\ UNCHANGED <<fsVars, standing, lock, opVars, crashes, aside>>

\* Another process changes the publisher's rows; it needs the write lock.
OutsideStore ==
    /\ outside < MaxOutside
    /\ lock = None
    /\ \E k \in Keys :
         /\ standing[k] = "active"
         /\ standing' \in {[standing EXCEPT ![k] = s] :
                           s \in {"retired", "compromised", "archived", "relabelled"}}
    /\ outside' = outside + 1
    /\ UNCHANGED <<fsVars, config, lock, opVars, crashes, aside>>

\* A kill: descriptors close, the database transaction rolls back, and every
\* directory stays as it is (cleanup of the staging directories is disabled).
Crash(o) ==
    /\ crashes < MaxCrashes
    /\ pc[o] \notin {"begin", "done"}
    /\ Ends(o, "killed", {})
    /\ ReleaseLock(o)
    /\ crashes' = crashes + 1
    /\ UNCHANGED <<fsVars, config, standing, outside, aside>>

Init ==
    LET old == [version |-> OldVersion, key |-> OldKey, valid |-> TRUE] IN
    /\ plugins = "plugins"
    /\ live = [d \in Directories |-> IF d = "plugins" /\ Installed THEN Old ELSE None]
    /\ place = [o \in Ops |-> None]
    /\ child = [o \in Ops |-> None]
    /\ private = [o \in Ops |-> TRUE]
    /\ content = [t \in Trees |->
                    IF t = Old /\ Installed THEN Tree(old, Receipt(old, Persona[OldKey])) ELSE None]
    /\ config = "unreferenced"
    /\ standing = [k \in Keys |-> "active"]
    /\ lock = None
    /\ pc = [o \in Ops |-> "begin"]
    /\ job = [o \in Ops |-> NoJob]
    /\ outcome = [o \in Ops |-> None]
    /\ outside = 0 /\ crashes = 0 /\ aside = {}

(***************************************************************************)
(* install_with_commands on Linux.                                         *)
(***************************************************************************)
-----------------------------------------------------------------------------
(* Layouts                                                                 *)

\* Both external paths and the pinned parent still name the staging directory.
StagingHolds(o) ==
    PluginsPathHolds(o) /\ PinnedOwnHolds(o) /\ OwnPathHolds(o) /\ private[o]

\* verify_install_source_before_rename.
SourceHolds(o) ==
    /\ TreeHolds(Candidate(o), job[o].snapshot)
    /\ child[o] = Candidate(o)
    /\ StagingHolds(o)

\* verify_install_layout: the candidate is the live plugin.
InstallLayoutHolds(o) ==
    /\ TreeHolds(Candidate(o), job[o].snapshot)
    /\ PinnedTarget(o) = Candidate(o) /\ PathTarget = Candidate(o)
    /\ child[o] = None
    /\ StagingHolds(o)

\* verify_rolled_back_install_layout: it is back in staging, no live plugin.
RolledBackLayoutHolds(o) ==
    /\ TreeHolds(Candidate(o), job[o].snapshot)
    /\ PinnedTarget(o) = None
    /\ child[o] = Candidate(o)
    /\ StagingHolds(o)

-----------------------------------------------------------------------------
(* What a failure says of the retained files                               *)

\* describe_retained_install_staging: the directory, without the candidate.
DescribeInstallStaging(o) ==
    IF PluginsPathHolds(o) /\ OwnPathHolds(o) THEN {<<None, "own">>} ELSE {}

\* describe_pinned_install_root.
DescribeInstallRoot(o) ==
    IF /\ TreeHolds(Candidate(o), job[o].snapshot)
       /\ OwnPathHolds(o) /\ PinnedOwnHolds(o) /\ child[o] = Candidate(o)
    THEN {<<Candidate(o), "own">>} ELSE {}

\* describe_install_recovery_state.
DescribeInstallRecovery(o) ==
    IF ~TreeHolds(Candidate(o), job[o].snapshot) THEN {}
    ELSE IF PinnedTarget(o) = Candidate(o) /\ PluginsPathHolds(o)
    THEN {<<Candidate(o), "live">>}
    ELSE IF child[o] = Candidate(o) /\ OwnPathHolds(o)
    THEN {<<Candidate(o), "own">>} ELSE {}

-----------------------------------------------------------------------------
(* Up to the candidate                                                     *)

\* The commands are accepted, the plugins directory is there and identified.
InstallBegin(o) ==
    /\ At(o, "install", "begin")
    /\ Goto(o, "stage")
    /\ job' = [job EXCEPT ![o].plugins = plugins]
    /\ UNCHANGED <<fsVars, config, standing, lock, outcome, countVars>>

\* retained_install_staging_directory: mode 0700, never removed.
InstallStage(o) ==
    /\ At(o, "install", "stage")
    /\ place' = [place EXCEPT ![o] = plugins]
    /\ private' = [private EXCEPT ![o] = TRUE]
    /\ Continues(o, "inspect")
    /\ UNCHANGED <<plugins, live, child, content, config, standing, lock, countVars>>

\* The package is copied once, sealed and inspected against its proof; its
\* publisher is looked up; the id is neither configured nor taken.
InstallInspect(o) ==
    /\ At(o, "install", "inspect")
    /\ IF /\ OwnPathHolds(o)
          /\ Package[o].valid
          /\ Installable(Package[o].key)
          /\ Unreferenced
          /\ PathTarget = None
       THEN /\ Goto(o, "extract")
            /\ job' = [job EXCEPT ![o].persona = Persona[Package[o].key]]
            /\ UNCHANGED outcome
       ELSE Ends(o, "failed retained", DescribeInstallStaging(o))
    /\ UNCHANGED <<fsVars, config, standing, lock, countVars>>

\* extract_archive_file and write_install_receipt, below the staging path.
InstallExtract(o) ==
    /\ At(o, "install", "extract")
    /\ IF OwnPathHolds(o)
       THEN /\ child' = [child EXCEPT ![o] = Candidate(o)]
            /\ content' = [content EXCEPT ![Candidate(o)] =
                             Tree(Package[o], Receipt(Package[o], job[o].persona))]
            /\ Continues(o, "snapshot")
       ELSE /\ Ends(o, "failed retained", DescribeInstallStaging(o))
            /\ UNCHANGED <<child, content>>
    /\ UNCHANGED <<plugins, live, place, private, config, standing, lock, countVars>>

\* The candidate's snapshot, which must be what the archive and the receipt
\* contain (verify_candidate_matches_extracted_manifest).
InstallSnapshot(o) ==
    /\ At(o, "install", "snapshot")
    /\ IF OwnPathHolds(o) /\ content[child[o]] = Tree(Package[o], Receipt(Package[o], job[o].persona))
       THEN /\ Goto(o, "pin")
            /\ job' = [job EXCEPT ![o].snapshot = content[child[o]]]
            /\ UNCHANGED outcome
       ELSE Ends(o, "failed retained", DescribeInstallStaging(o))
    /\ UNCHANGED <<fsVars, config, standing, lock, countVars>>

\* prepare_pinned_install.
InstallPin(o) ==
    /\ At(o, "install", "pin")
    /\ IF SourceHolds(o) /\ PinnedTarget(o) = None
       THEN Continues(o, "validate")
       ELSE Ends(o, "indeterminate", DescribeInstallStaging(o))
    /\ UNCHANGED <<fsVars, config, standing, lock, countVars>>

\* validate_candidate_with: Omarchy's validator accepts or not, and the tree is
\* as it was.
InstallValidate(o) ==
    /\ At(o, "install", "validate")
    /\ \/ TreeHolds(Candidate(o), job[o].snapshot) /\ Continues(o, "recheck")
       \/ ~TreeHolds(Candidate(o), job[o].snapshot) /\ Ends(o, "indeterminate", DescribeInstallRoot(o))
       \/ Ends(o, "failed retained", DescribeInstallRoot(o))
    /\ UNCHANGED <<fsVars, config, standing, lock, countVars>>

InstallRecheck(o) ==
    /\ At(o, "install", "recheck")
    /\ IF Unreferenced /\ PathTarget = None
       THEN Continues(o, "authorize")
       ELSE Ends(o, "failed retained", DescribeInstallRoot(o))
    /\ UNCHANGED <<fsVars, config, standing, lock, countVars>>

-----------------------------------------------------------------------------
(* Exposure, inside the store's write transaction                          *)

InstallAuthorize(o) ==
    /\ At(o, "install", "authorize")
    /\ TakeAuthorization(o, "verify source", "refused", DescribeInstallRoot(o))
    /\ UNCHANGED <<fsVars, config, standing, countVars>>

\* expose_pinned_install_no_replace: the check, the rename, the check.
InstallVerifySource(o) ==
    /\ At(o, "install", "verify source")
    /\ IF SourceHolds(o)
       THEN Continues(o, "expose") /\ UNCHANGED lock
       ELSE Ends(o, "indeterminate", DescribeInstallRecovery(o)) /\ ReleaseLock(o)
    /\ UNCHANGED <<fsVars, config, standing, countVars>>

InstallExpose(o) ==
    /\ At(o, "install", "expose")
    /\ \/ /\ child[o] # None /\ PinnedTarget(o) = None
          /\ live' = [live EXCEPT ![job[o].plugins] = child[o]]
          /\ child' = [child EXCEPT ![o] = None]
          /\ Continues(o, "verify layout")
          /\ UNCHANGED lock
       \/ /\ child[o] = None \/ PinnedTarget(o) # None
          /\ Ends(o, "indeterminate", DescribeInstallRecovery(o))
          /\ ReleaseLock(o)
          /\ UNCHANGED <<live, child>>
    /\ UNCHANGED <<plugins, place, private, content, config, standing, countVars>>

InstallVerifyLayout(o) ==
    /\ At(o, "install", "verify layout")
    /\ IF InstallLayoutHolds(o)
       THEN Continues(o, "commit") /\ UNCHANGED lock
       ELSE Ends(o, "indeterminate", DescribeInstallRecovery(o)) /\ ReleaseLock(o)
    /\ UNCHANGED <<fsVars, config, standing, countVars>>

\* The transaction commits, or the authorization fails to finalize.
InstallCommit(o) ==
    /\ At(o, "install", "commit")
    /\ Continues(o, "rescan") \/ Continues(o, "rollback")
    /\ ReleaseLock(o)
    /\ UNCHANGED <<fsVars, config, standing, countVars>>

\* The shell scans the plugins again, or the rescan fails.
InstallRescan(o) ==
    /\ At(o, "install", "rescan")
    /\ Continues(o, "final") \/ Continues(o, "rollback")
    /\ UNCHANGED <<fsVars, config, standing, lock, countVars>>

InstallFinal(o) ==
    /\ At(o, "install", "final")
    /\ IF InstallLayoutHolds(o)
       THEN Ends(o, "installed", {<<Candidate(o), "live">>})
       ELSE Ends(o, "indeterminate", DescribeInstallRecovery(o))
    /\ UNCHANGED <<fsVars, config, standing, lock, countVars>>

-----------------------------------------------------------------------------
(* fail_after_install_and_rollback, outside the transaction                *)

\* rollback_pinned_install: the check, the rename back, the check.
InstallRollback(o) ==
    /\ At(o, "install", "rollback")
    /\ IF InstallLayoutHolds(o)
       THEN Continues(o, "rename back")
       ELSE Ends(o, "rollback failed", DescribeInstallRecovery(o))
    /\ UNCHANGED <<fsVars, config, standing, lock, countVars>>

InstallRenameBack(o) ==
    /\ At(o, "install", "rename back")
    /\ IF PinnedTarget(o) # None /\ child[o] = None
       THEN /\ child' = [child EXCEPT ![o] = PinnedTarget(o)]
            /\ live' = [live EXCEPT ![job[o].plugins] = None]
            /\ Continues(o, "rolled back")
       ELSE /\ Ends(o, "rollback failed", DescribeInstallRecovery(o))
            /\ UNCHANGED <<child, live>>
    /\ UNCHANGED <<plugins, place, private, content, config, standing, lock, countVars>>

InstallRolledBack(o) ==
    /\ At(o, "install", "rolled back")
    /\ IF RolledBackLayoutHolds(o)
       THEN Continues(o, "recovery rescan")
       ELSE Ends(o, "rollback failed", DescribeInstallRecovery(o))
    /\ UNCHANGED <<fsVars, config, standing, lock, countVars>>

InstallRecoveryRescan(o) ==
    /\ At(o, "install", "recovery rescan")
    /\ Continues(o, "observe rescanned") \/ Continues(o, "observe unscanned")
    /\ UNCHANGED <<fsVars, config, standing, lock, countVars>>

InstallObserve(o) ==
    /\ \E s \in {"observe rescanned", "observe unscanned"} :
         /\ At(o, "install", s)
         /\ IF ~RolledBackLayoutHolds(o) \/ ~Unreferenced
            THEN Ends(o, "indeterminate", DescribeInstallRecovery(o))
            ELSE IF s = "observe unscanned"
            THEN Ends(o, "rollback failed", DescribeInstallRecovery(o))
            ELSE Ends(o, "rolled back", {<<Candidate(o), "own">>})
    /\ UNCHANGED <<fsVars, config, standing, lock, countVars>>

Install(o) ==
    \/ InstallBegin(o) \/ InstallStage(o) \/ InstallInspect(o) \/ InstallExtract(o)
    \/ InstallSnapshot(o) \/ InstallPin(o) \/ InstallValidate(o) \/ InstallRecheck(o)
    \/ InstallAuthorize(o) \/ InstallVerifySource(o) \/ InstallExpose(o)
    \/ InstallVerifyLayout(o) \/ InstallCommit(o) \/ InstallRescan(o) \/ InstallFinal(o)
    \/ InstallRollback(o) \/ InstallRenameBack(o) \/ InstallRolledBack(o)
    \/ InstallRecoveryRescan(o) \/ InstallObserve(o)

(***************************************************************************)
(* update_with_commands on Linux: the installed release and the candidate  *)
(* change places with one RENAME_EXCHANGE.                                 *)
(***************************************************************************)
-----------------------------------------------------------------------------
(* Layouts                                                                 *)

\* verify_update_pair: which tree is live, which in the recovery directory.
PairHolds(o, now, kept) == PinnedTarget(o) = now /\ child[o] = kept

\* verify_update_layout.
UpdateLayoutHolds(o, now, kept) ==
    /\ PairHolds(o, now, kept)
    /\ TreeHolds(job[o].installed, job[o].baseline)
    /\ TreeHolds(Candidate(o), job[o].snapshot)
    /\ private[o] /\ PinnedOwnHolds(o) /\ PluginsPathHolds(o) /\ OwnPathHolds(o)

\* describe_retained_update_staging and describe_pinned_update_root.
DescribeUpdateStaging(o) ==
    IF PluginsPathHolds(o) /\ OwnPathHolds(o) THEN {<<None, "own">>} ELSE {}

\* describe_update_recovery_state: where the prior release is.
DescribeUpdateRecovery(o) ==
    IF ~TreeHolds(job[o].installed, job[o].baseline) THEN {}
    ELSE IF /\ child[o] = job[o].installed /\ private[o]
            /\ PluginsPathHolds(o) /\ OwnPathHolds(o)
    THEN {<<job[o].installed, "own">>}
    ELSE IF PinnedTarget(o) = job[o].installed /\ PluginsPathHolds(o)
    THEN {<<job[o].installed, "live">>} ELSE {}

-----------------------------------------------------------------------------
(* Up to the candidate                                                     *)

UpdateBegin(o) ==
    /\ At(o, "update", "begin")
    /\ Goto(o, "stage")
    /\ job' = [job EXCEPT ![o].plugins = plugins]
    /\ UNCHANGED <<fsVars, config, standing, lock, outcome, countVars>>

\* retained_update_staging_directory: mode 0700, never removed.
UpdateStage(o) ==
    /\ At(o, "update", "stage")
    /\ place' = [place EXCEPT ![o] = plugins]
    /\ private' = [private EXCEPT ![o] = TRUE]
    /\ Continues(o, "inspect")
    /\ UNCHANGED <<plugins, live, child, content, config, standing, lock, countVars>>

\* The package against its proof, the publisher, and the installed release as
\* it is now.
UpdateInspect(o) ==
    /\ At(o, "update", "inspect")
    /\ IF /\ OwnPathHolds(o)
          /\ Package[o].valid
          /\ Installable(Package[o].key)
          /\ PathTarget # None
          /\ ~content[PathTarget].git
       THEN /\ Goto(o, "check installed")
            /\ job' = [job EXCEPT ![o].persona = Persona[Package[o].key],
                                  ![o].installed = PathTarget,
                                  ![o].baseline = content[PathTarget]]
            /\ UNCHANGED outcome
       ELSE Ends(o, "failed", {})
    /\ UNCHANGED <<fsVars, config, standing, lock, countVars>>

\* validate_installed_state, publisher continuity and require_newer_version,
\* on the snapshot of the installed release.
Succeeds(o) ==
    LET base == job[o].baseline IN
    /\ base.receipt # None
    /\ base.receipt.version = base.package.version
    /\ base.receipt.persona = job[o].persona
    /\ base.package.version < Package[o].version

\* The validator accepts the installed release or not, and it is as it was.
UpdateCheckInstalled(o) ==
    /\ At(o, "update", "check installed")
    /\ \/ /\ PathTarget = job[o].installed
          /\ TreeHolds(job[o].installed, job[o].baseline)
          /\ Succeeds(o)
          /\ Continues(o, "extract")
       \/ Ends(o, "failed", {})
    /\ UNCHANGED <<fsVars, config, standing, lock, countVars>>

UpdateExtract(o) ==
    /\ At(o, "update", "extract")
    /\ IF OwnPathHolds(o)
       THEN /\ child' = [child EXCEPT ![o] = Candidate(o)]
            /\ content' = [content EXCEPT ![Candidate(o)] =
                             Tree(Package[o], Receipt(Package[o], job[o].persona))]
            /\ Continues(o, "snapshot")
       ELSE /\ Ends(o, "failed", {})
            /\ UNCHANGED <<child, content>>
    /\ UNCHANGED <<plugins, live, place, private, config, standing, lock, countVars>>

UpdateSnapshot(o) ==
    /\ At(o, "update", "snapshot")
    /\ IF OwnPathHolds(o) /\ content[child[o]] = Tree(Package[o], Receipt(Package[o], job[o].persona))
       THEN /\ Goto(o, "validate")
            /\ job' = [job EXCEPT ![o].snapshot = content[child[o]]]
            /\ UNCHANGED outcome
       ELSE Ends(o, "failed", {})
    /\ UNCHANGED <<fsVars, config, standing, lock, countVars>>

\* The validator on the candidate's path, and the candidate as it was.
UpdateValidate(o) ==
    /\ At(o, "update", "validate")
    /\ \/ /\ OwnPathHolds(o) /\ child[o] = Candidate(o)
          /\ TreeHolds(Candidate(o), job[o].snapshot)
          /\ Continues(o, "authorize")
       \/ Ends(o, "failed", {})
    /\ UNCHANGED <<fsVars, config, standing, lock, countVars>>

-----------------------------------------------------------------------------
(* The exchange, inside the store's write transaction                      *)

UpdateAuthorize(o) ==
    /\ At(o, "update", "authorize")
    /\ TakeAuthorization(o, "pin exchange", "refused", DescribeUpdateStaging(o))
    /\ UNCHANGED <<fsVars, config, standing, countVars>>

\* prepare_pinned_update, then verify_update_pair before the exchange.
UpdatePin(o) ==
    /\ At(o, "update", "pin exchange")
    /\ IF UpdateLayoutHolds(o, job[o].installed, Candidate(o))
       THEN Continues(o, "exchange") /\ UNCHANGED lock
       ELSE Ends(o, "indeterminate", DescribeUpdateStaging(o)) /\ ReleaseLock(o)
    /\ UNCHANGED <<fsVars, config, standing, countVars>>

\* A variant that renames the candidate over the live release.
SlipReplace(o) ==
    /\ live' = [live EXCEPT ![job[o].plugins] = child[o]]
    /\ child' = [child EXCEPT ![o] = None]

\* RENAME_EXCHANGE of the recovery directory's entry and the live one.
Exchange(o) ==
    /\ child' = [child EXCEPT ![o] = PinnedTarget(o)]
    /\ live' = [live EXCEPT ![job[o].plugins] = child[o]]

UpdateExchange(o) ==
    /\ At(o, "update", "exchange")
    /\ \/ /\ PinnedTarget(o) # None /\ child[o] # None
          /\ Exchange(o)
          /\ Continues(o, "verify exchange")
          /\ UNCHANGED lock
       \/ /\ PinnedTarget(o) = None \/ child[o] = None
          /\ Ends(o, "failed", DescribeUpdateStaging(o))
          /\ ReleaseLock(o)
          /\ UNCHANGED <<child, live>>
    /\ UNCHANGED <<plugins, place, private, content, config, standing, countVars>>

UpdateVerifyExchange(o) ==
    /\ At(o, "update", "verify exchange")
    /\ IF PairHolds(o, Candidate(o), job[o].installed)
       THEN Continues(o, "commit") /\ UNCHANGED lock
       ELSE Ends(o, "indeterminate", DescribeUpdateRecovery(o)) /\ ReleaseLock(o)
    /\ UNCHANGED <<fsVars, config, standing, countVars>>

\* The transaction commits, or the authorization fails to finalize.
UpdateCommit(o) ==
    /\ At(o, "update", "commit")
    /\ Continues(o, "rescan") \/ Continues(o, "rollback")
    /\ ReleaseLock(o)
    /\ UNCHANGED <<fsVars, config, standing, countVars>>

UpdateRescan(o) ==
    /\ At(o, "update", "rescan")
    /\ Continues(o, "final") \/ Continues(o, "rollback")
    /\ UNCHANGED <<fsVars, config, standing, lock, countVars>>

UpdateFinal(o) ==
    /\ At(o, "update", "final")
    /\ IF UpdateLayoutHolds(o, Candidate(o), job[o].installed)
       THEN Ends(o, "updated", {<<Candidate(o), "live">>, <<job[o].installed, "own">>})
       ELSE Ends(o, "indeterminate", DescribeUpdateRecovery(o))
    /\ UNCHANGED <<fsVars, config, standing, lock, countVars>>

-----------------------------------------------------------------------------
(* The exchange back, outside the transaction                              *)

\* rollback_pinned_update: the check, the exchange, the check.
UpdateRollback(o) ==
    /\ At(o, "update", "rollback")
    /\ IF /\ PairHolds(o, Candidate(o), job[o].installed)
          /\ TreeHolds(job[o].installed, job[o].baseline)
       THEN Continues(o, "exchange back")
       ELSE Ends(o, "rollback failed", DescribeUpdateRecovery(o))
    /\ UNCHANGED <<fsVars, config, standing, lock, countVars>>

UpdateExchangeBack(o) ==
    /\ At(o, "update", "exchange back")
    /\ IF PinnedTarget(o) # None /\ child[o] # None
       THEN Exchange(o) /\ Continues(o, "verify back")
       ELSE Ends(o, "rollback failed", DescribeUpdateRecovery(o)) /\ UNCHANGED <<child, live>>
    /\ UNCHANGED <<plugins, place, private, content, config, standing, lock, countVars>>

UpdateVerifyBack(o) ==
    /\ At(o, "update", "verify back")
    /\ IF PairHolds(o, job[o].installed, Candidate(o))
       THEN Continues(o, "recovery rescan")
       ELSE Ends(o, "rollback failed", DescribeUpdateRecovery(o))
    /\ UNCHANGED <<fsVars, config, standing, lock, countVars>>

UpdateRecoveryRescan(o) ==
    /\ At(o, "update", "recovery rescan")
    /\ Continues(o, "observe rescanned") \/ Continues(o, "observe unscanned")
    /\ UNCHANGED <<fsVars, config, standing, lock, countVars>>

UpdateObserve(o) ==
    /\ \E s \in {"observe rescanned", "observe unscanned"} :
         /\ At(o, "update", s)
         /\ IF ~UpdateLayoutHolds(o, job[o].installed, Candidate(o))
            THEN Ends(o, "indeterminate", DescribeUpdateRecovery(o))
            ELSE Ends(o, IF s = "observe rescanned" THEN "rolled back" ELSE "rollback failed",
                      {<<job[o].installed, "live">>, <<Candidate(o), "own">>})
    /\ UNCHANGED <<fsVars, config, standing, lock, countVars>>

Update(o) ==
    \/ UpdateBegin(o) \/ UpdateStage(o) \/ UpdateInspect(o) \/ UpdateCheckInstalled(o)
    \/ UpdateExtract(o) \/ UpdateSnapshot(o) \/ UpdateValidate(o) \/ UpdateAuthorize(o)
    \/ UpdatePin(o) \/ UpdateExchange(o) \/ UpdateVerifyExchange(o) \/ UpdateCommit(o)
    \/ UpdateRescan(o) \/ UpdateFinal(o) \/ UpdateRollback(o) \/ UpdateExchangeBack(o)
    \/ UpdateVerifyBack(o) \/ UpdateRecoveryRescan(o) \/ UpdateObserve(o)

(***************************************************************************)
(* uninstall_with_commands on Linux: the live release moves into a         *)
(* quarantine of its own.  Removal needs no publisher and takes no lock.   *)
(***************************************************************************)
\* verify_restored_target.
RestoredHolds(o) ==
    /\ PinnedTarget(o) = job[o].installed
    /\ child[o] = None
    /\ PinnedOwnHolds(o) /\ PluginsPathHolds(o)

\* verify_retained_quarantine.
QuarantineHolds(o) ==
    /\ private[o]
    /\ child[o] = job[o].installed
    /\ PinnedOwnHolds(o) /\ PluginsPathHolds(o)
    /\ PinnedTarget(o) = None

\* describe_pinned_recovery_state.
DescribeRemovalRecovery(o) ==
    IF /\ child[o] = job[o].installed
       /\ PluginsPathHolds(o) /\ private[o] /\ PinnedOwnHolds(o)
    THEN {<<job[o].installed, "own">>} ELSE {}

\* The live release is one A Quo installed and is not referenced.
RemoveBegin(o) ==
    /\ At(o, "remove", "begin")
    /\ IF PathTarget # None /\ Managed(PathTarget) /\ Unreferenced
       THEN /\ Goto(o, "pin")
            /\ job' = [job EXCEPT ![o].installed = PathTarget]
            /\ UNCHANGED outcome
       ELSE Ends(o, "failed", {})
    /\ UNCHANGED <<fsVars, config, standing, lock, countVars>>

\* prepare_pinned_removal: the target is still the one that was examined, a
\* quarantine is made (mode 0700, never removed) and all three are pinned.
RemovePin(o) ==
    /\ At(o, "remove", "pin")
    /\ IF PathTarget = job[o].installed
       THEN /\ place' = [place EXCEPT ![o] = plugins]
            /\ Goto(o, "recheck")
            /\ job' = [job EXCEPT ![o].plugins = plugins]
            /\ UNCHANGED outcome
       ELSE Ends(o, "failed", {}) /\ UNCHANGED place
    /\ UNCHANGED <<plugins, live, child, private, content, config, standing, lock, countVars>>

RemoveRecheck(o) ==
    /\ At(o, "remove", "recheck")
    /\ IF Unreferenced /\ (PathTarget = None \/ ~content[PathTarget].git)
       THEN Continues(o, "quarantine")
       ELSE Ends(o, "failed", {})
    /\ UNCHANGED <<fsVars, config, standing, lock, countVars>>

\* quarantine_pinned_target: the rename, then the moved entry's identity.
RemoveQuarantine(o) ==
    /\ At(o, "remove", "quarantine")
    /\ IF PinnedTarget(o) # None /\ child[o] = None
       THEN /\ child' = [child EXCEPT ![o] = PinnedTarget(o)]
            /\ live' = [live EXCEPT ![job[o].plugins] = None]
            /\ Continues(o, "verify moved")
       ELSE Ends(o, "failed", {}) /\ UNCHANGED <<child, live>>
    /\ UNCHANGED <<plugins, place, private, content, config, standing, lock, countVars>>

RemoveVerifyMoved(o) ==
    /\ At(o, "remove", "verify moved")
    /\ IF child[o] = job[o].installed
       THEN Continues(o, "rescan")
       ELSE Continues(o, "give back")
    /\ UNCHANGED <<fsVars, config, standing, lock, countVars>>

\* restore_quarantined_identity: what was moved by mistake goes back, unless
\* its place is taken and manual attention is required.
RemoveGiveBack(o) ==
    /\ At(o, "remove", "give back")
    /\ IF child[o] # None /\ PinnedTarget(o) = None
       THEN /\ live' = [live EXCEPT ![job[o].plugins] = child[o]]
            /\ child' = [child EXCEPT ![o] = None]
            /\ Ends(o, "failed", {})
       ELSE Ends(o, "manual attention", {}) /\ UNCHANGED <<child, live>>
    /\ UNCHANGED <<plugins, place, private, content, config, standing, lock, countVars>>

RemoveRescan(o) ==
    /\ At(o, "remove", "rescan")
    /\ Continues(o, "final") \/ Continues(o, "restore")
    /\ UNCHANGED <<fsVars, config, standing, lock, countVars>>

RemoveFinal(o) ==
    /\ At(o, "remove", "final")
    /\ IF QuarantineHolds(o)
       THEN Ends(o, "removed", {<<job[o].installed, "own">>})
       ELSE Ends(o, "indeterminate", {})
    /\ UNCHANGED <<fsVars, config, standing, lock, countVars>>

\* restore_pinned_target: the check and the rename; the identity after it.
RemoveRestore(o) ==
    /\ At(o, "remove", "restore")
    /\ IF child[o] = job[o].installed /\ PinnedTarget(o) = None
       THEN /\ live' = [live EXCEPT ![job[o].plugins] = child[o]]
            /\ child' = [child EXCEPT ![o] = None]
            /\ Continues(o, "restored")
       ELSE /\ Ends(o, "rollback failed", DescribeRemovalRecovery(o))
            /\ UNCHANGED <<child, live>>
    /\ UNCHANGED <<plugins, place, private, content, config, standing, lock, countVars>>

RemoveRestored(o) ==
    /\ At(o, "remove", "restored")
    /\ IF PinnedTarget(o) = job[o].installed
       THEN Continues(o, "observe rescanned") \/ Continues(o, "observe unscanned")
       ELSE Ends(o, "rollback failed", DescribeRemovalRecovery(o))
    /\ UNCHANGED <<fsVars, config, standing, lock, countVars>>

RemoveObserve(o) ==
    /\ \E s \in {"observe rescanned", "observe unscanned"} :
         /\ At(o, "remove", s)
         /\ IF ~RestoredHolds(o)
            THEN Ends(o, "indeterminate", {})
            ELSE Ends(o, IF s = "observe rescanned" THEN "rolled back" ELSE "rollback failed",
                      {<<job[o].installed, "live">>})
    /\ UNCHANGED <<fsVars, config, standing, lock, countVars>>

Remove(o) ==
    \/ RemoveBegin(o) \/ RemovePin(o) \/ RemoveRecheck(o) \/ RemoveQuarantine(o)
    \/ RemoveVerifyMoved(o) \/ RemoveGiveBack(o) \/ RemoveRescan(o) \/ RemoveFinal(o)
    \/ RemoveRestore(o) \/ RemoveRestored(o) \/ RemoveObserve(o)

(***************************************************************************)
(* The operations together.                                                *)
(***************************************************************************)
Done == (\A o \in Ops : pc[o] = "done") /\ UNCHANGED vars

Next ==
    \/ \E o \in Ops : Install(o) \/ Update(o) \/ Remove(o) \/ Crash(o)
    \/ OutsideFiles \/ OutsideConfig \/ OutsideStore
    \/ Done

Spec == Init /\ [][Next]_vars

-----------------------------------------------------------------------------

\* The names that lead to a tree.
Names(t) ==
    {<<"live", d>> : d \in {e \in Directories : live[e] = t}}
        \union {<<"own", o>> : o \in {p \in Ops : child[p] = t}}
        \union {<<"aside", t>> : u \in {t} \intersect aside}

\* The outcomes that say a release was not taken into use.
Rejections == {"failed", "failed retained", "refused", "rolled back"}

\* Every rename is RENAME_NOREPLACE or RENAME_EXCHANGE and nothing is deleted:
\* however operations interleave and wherever they are killed, each release
\* that was ever extracted or installed is under exactly one name.  One whose
\* operation was reported as refused, failed or rolled back is not live, then
\* or later, whatever the rollbacks of other operations move.
NothingIsLost ==
    /\ \A t \in Trees : Cardinality(Names(t)) = IF content[t] = None THEN 0 ELSE 1
    /\ \A o \in Ops :
         pc[o] = "done" /\ outcome[o].how \in Rejections
           => \A d \in Directories : live[d] # Candidate(o)

\* A step by which the release o offers becomes the plugin in directory d.
Exposes(o, d) ==
    live[d] # Candidate(o) /\ live'[d] = Candidate(o) /\ child[o] = Candidate(o)

\* with_active_key_authorization and the comparison with the installed release:
\* a release becomes live only inside the transaction that found its publisher
\* active, it is the signed package with its receipt unless other programs
\* write into the private staging directory, and what it replaces is an older
\* release of the same persona, also when another update, a rollback or a
\* removal runs between the comparison and the exchange.
AuthorizedExposure ==
    \A o \in Ops, d \in Directories : Exposes(o, d) =>
        /\ lock = o
        /\ standing[Package[o].key] = "active"
        /\ outside = 0 =>
             content[Candidate(o)] = Tree(Package[o], Receipt(Package[o], Persona[Package[o].key]))
        /\ live[d] \notin {None, Foreign} =>
             LET replaced == content[live[d]].package IN
             /\ Persona[replaced.key] = Persona[Package[o].key]
             /\ replaced.version < Package[o].version
=============================================================================
