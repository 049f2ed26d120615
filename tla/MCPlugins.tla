------------------------------ MODULE MCPlugins -------------------------------
(***************************************************************************)
(* The plugin manager: a package that is inspected and extracted           *)
(* (PluginArchive), operations that race (PluginOperations), the snapshot  *)
(* walk beside another program (TreeSnapshot) and the records consent      *)
(* rests on (RiskAssessment).  Each works on state of its own; one moves   *)
(* in a behaviour, the subject, and the others stay where they start.      *)
(***************************************************************************)
EXTENDS PluginArchive, TLC

VARIABLES
    subject,
    plugins, live, place, child, private, content, config, standing, lock,
    pc, job, outcome, outside, crashes, aside,
    names, hasSub, data, links, stamp, frames, reading, entries, bytesRead, result, parsed, writes,
    made, set, verdict

operationVars ==
    <<plugins, live, place, child, private, content, config, standing, lock,
      pc, job, outcome, outside, crashes, aside>>
walkVars ==
    <<names, hasSub, data, links, stamp, frames, reading, entries, bytesRead, result, parsed, writes>>
riskVars == <<made, set, verdict>>
pluginVars == <<subject, vars, operationVars, walkVars, riskVars>>

-----------------------------------------------------------------------------
(* Packages of up to three entries                                         *)

MCRawPaths ==
    {<<"m">>, <<"a">>, <<"a", "b">>, <<"a", ".", "b">>, <<"b", "a", "b">>, <<"..", "a">>, <<"receipt">>}

-----------------------------------------------------------------------------
(* Operations                                                              *)

Release(version, key) == [version |-> version, key |-> key, valid |-> TRUE]

Publishers == {"alice1", "alice2", "bob"}
PublisherPersona == [k \in Publishers |-> IF k = "bob" THEN "Bob" ELSE "Alice"]

\* Two updates, from two keys of the publisher, and a removal.
RaceOps == {"u1", "u2", "r"}
RaceKind == [o \in RaceOps |-> IF o = "r" THEN "remove" ELSE "update"]
RacePackage == [o \in RaceOps |-> IF o = "u1" THEN Release(2, "alice2") ELSE Release(3, "alice1")]

Racing == INSTANCE PluginOperations WITH
    Ops <- RaceOps, Kind <- RaceKind, Package <- RacePackage,
    Keys <- Publishers, Persona <- PublisherPersona,
    OldVersion <- 1, OldKey <- "alice1", Installed <- TRUE, MaxOutside <- 0, MaxCrashes <- 2

\* Two publishers' installs of one id, beside the user's own programs.
InstallOps == {"i1", "i2"}
InstallKind == [o \in InstallOps |-> "install"]
InstallPackage == [o \in InstallOps |-> IF o = "i1" THEN Release(1, "alice1") ELSE Release(2, "bob")]

Installing == INSTANCE PluginOperations WITH
    Ops <- InstallOps, Kind <- InstallKind, Package <- InstallPackage,
    Keys <- Publishers, Persona <- PublisherPersona,
    OldVersion <- 1, OldKey <- "alice1", Installed <- FALSE, MaxOutside <- 1, MaxCrashes <- 1

\* A removal and an update of one plugin, beside the user's own programs.
ReplaceOps == {"r", "u"}
ReplaceKind == [o \in ReplaceOps |-> IF o = "r" THEN "remove" ELSE "update"]
ReplacePackage == [o \in ReplaceOps |-> Release(2, "alice1")]

Replacing == INSTANCE PluginOperations WITH
    Ops <- ReplaceOps, Kind <- ReplaceKind, Package <- ReplacePackage,
    Keys <- Publishers, Persona <- PublisherPersona,
    OldVersion <- 1, OldKey <- "alice1", Installed <- TRUE, MaxOutside <- 1, MaxCrashes <- 1

-----------------------------------------------------------------------------
(* A tree of two files, one of them below, and another program             *)

InitialNames ==
    [d \in {"root", "sub"} |-> [n \in {"a", "b"} |->
        CASE d = "root" /\ n = "a" -> "f1" [] d = "sub" /\ n = "b" -> "f2" [] OTHER -> None]]

Walk == INSTANCE TreeSnapshot WITH
    Root <- "root", Sub <- "sub", Names <- {"a", "b"}, Inodes <- {"f1", "f2", "f3"},
    MaxEntries <- 5, MaxDepth <- 1, MaxTotal <- 6, MaxWrites <- 2, total <- bytesRead

-----------------------------------------------------------------------------
(* Publishers in every standing, packages that differ in one file or mode  *)

Known(registry, key, persona, root, agree, continuity) ==
    [registry |-> registry, key |-> key, persona |-> persona, root |-> root, agree |-> agree,
     continuity |-> continuity]

RiskPublishers ==
    {Known("active", "active", "alice", "root", TRUE, "verified"),
     Known("active", "active", "alice", "root", FALSE, "verified"),
     Known("active", "active", "alice", "other root", TRUE, "verified"),
     Known("active", "active", "alice", "root", TRUE, "invalid"),
     Known("active", "active", "alice", None, TRUE, "not managed"),
     Known("active", "active", "bob", "root", TRUE, "verified"),
     Known("terminally revoked", "active", "alice", "root", TRUE, "verified"),
     Known("unrecognized", None, None, None, None, "not checked")}

RiskOldPublishers ==
    {Known("active", "active", "alice", "root", TRUE, "verified"),
     Known("unrecognized", None, None, None, None, "not checked")}

PackageFile(sha, mode, entryPoint) == [sha |-> sha, mode |-> mode, entryPoint |-> entryPoint]

Contents(tree, validation) == [files |-> tree, validation |-> validation]

Plain == [f \in {"manifest"} |-> PackageFile("m", 420, FALSE)]
WithTool(sha, mode) == Plain @@ [f \in {"tool"} |-> PackageFile(sha, mode, TRUE)]

RiskTrees == {Contents(WithTool("t", 493), "passed"), Contents(WithTool("u", 420), "passed"), Contents(Plain, "failed")}
RiskOldTrees == {Contents(Plain, "passed"), Contents(WithTool("t", 420), "passed")}

Handling(d) ==
    [s \in {"missing", "incomplete", "error", "unsupported", "not run"} |-> d]

RiskPolicies ==
    {[revision |-> 1, interactive |-> "consent", required |-> {"scan"}, handling |-> Handling("block"),
      indeterminate |-> "consent"],
     [revision |-> 2, interactive |-> "consent", required |-> {"scan"}, handling |-> Handling("consent"),
      indeterminate |-> "block"]}

NoNativeReports == [i \in {} |-> None]

NativeReport(digest, status) ==
    [i \in {"scan"} |-> [schema |-> IF digest = None THEN None ELSE "native", digest |-> digest, status |-> status]]

RiskReports == {NoNativeReports, NativeReport("d1", "complete"), NativeReport("d1", "incomplete"), NativeReport(None, "error")}
RiskOldReports == {NoNativeReports, NativeReport("d1", "incomplete")}

Risk == INSTANCE RiskAssessment WITH
    Manifest <- "manifest",
    Publishers <- RiskPublishers, Trees <- RiskTrees, Policies <- RiskPolicies,
    Reports <- RiskReports, OldPublishers <- RiskOldPublishers, OldTrees <- RiskOldTrees,
    OldReports <- RiskOldReports, Versions <- {1, 2}, PluginIds <- {"plugin", "renamed"}

-----------------------------------------------------------------------------

PluginsInit ==
    /\ Init /\ Walk!Init /\ Risk!Init
    /\ \/ subject \in {"racing", "package", "walk", "risk"} /\ Racing!Init
       \/ subject = "installing" /\ Installing!Init
       \/ subject = "replacing" /\ Replacing!Init

PluginsNext ==
    /\ UNCHANGED subject
    /\ \/ subject = "package" /\ Next /\ UNCHANGED <<operationVars, walkVars, riskVars>>
       \/ subject = "racing" /\ Racing!Next /\ UNCHANGED <<vars, walkVars, riskVars>>
       \/ subject = "installing" /\ Installing!Next /\ UNCHANGED <<vars, walkVars, riskVars>>
       \/ subject = "replacing" /\ Replacing!Next /\ UNCHANGED <<vars, walkVars, riskVars>>
       \/ subject = "walk" /\ Walk!Next /\ UNCHANGED <<vars, operationVars, riskVars>>
       \/ subject = "risk" /\ Risk!Next /\ UNCHANGED <<vars, operationVars, walkVars>>

PluginsSpec == PluginsInit /\ [][PluginsNext]_pluginVars

\* See PluginOperations: no release is lost, and none that was rejected is live.
NothingIsLost ==
    CASE subject = "installing" -> Installing!NothingIsLost
      [] subject = "replacing" -> Replacing!NothingIsLost
      [] OTHER -> Racing!NothingIsLost

\* See PluginOperations: a release becomes live under its publisher's authority
\* and replaces an older one of the same persona.
ExposureIsAuthorized ==
    [][CASE subject = "installing" -> Installing!AuthorizedExposure
         [] subject = "replacing" -> Replacing!AuthorizedExposure
         [] subject = "racing" -> Racing!AuthorizedExposure
         [] OTHER -> TRUE]_operationVars

\* See TreeSnapshot: an entry is one version of its file, within the limits.
EntriesAreWhole == Walk!EntriesAreWhole

\* See RiskAssessment: an accepted set is as it was made, and consent needs
\* evidence.
AcceptedIsAsMade == Risk!AcceptedIsAsMade
=============================================================================
