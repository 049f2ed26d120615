---------------------------- MODULE PluginArchive ----------------------------
(***************************************************************************)
(* archive.rs: one package is inspected without writing anything, and the  *)
(* same sealed bytes are then extracted.  The archive is a stream that the *)
(* publisher chose; it is recorded entry by entry during inspection and    *)
(* replayed during extraction.                                             *)
(***************************************************************************)
EXTENDS Integers, Sequences, FiniteSets, SequencesExt

CONSTANTS
    RawPaths,        \* paths as they may stand in tar headers
    SafeNames,       \* components validate_entry_path accepts
    ManifestName, ReceiptName,
    Sizes,           \* sizes of files
    MaxArchiveEntries, MaxComponents, MaxFile, MaxTotal, MaxManifest, MaxStream,
    MaxExtracted,    \* MAX_EXTRACTED_TREE_ENTRIES
    MaxTreeEntries, MaxTreeDepth, MaxTreeBytes, MaxReceipt, \* limits of the snapshot walk
    None

\* The relations between the limits of archive.rs and those of tree.rs.
ASSUME LimitsAssumption ==
    /\ MaxTreeEntries = MaxExtracted + 1
    /\ MaxTreeDepth = MaxComponents
    /\ MaxTreeBytes = MaxTotal + MaxReceipt
    /\ ManifestName \in SafeNames /\ ReceiptName \notin SafeNames

VARIABLES
    stage,      \* "inspect", "extract", "extracted", "refused"
    reason,     \* why it was refused
    archive,    \* the entries of the package, as far as they are known
    ending,     \* what follows them: trailing data and the manifest's contents
    position,   \* entries processed in this pass
    seen, files, directories, extracted, total,  \* locals of process_archive
    manifest,   \* whether manifest.json has been met
    report,     \* the inspection's result
    disk        \* path -> Directory or the size of the file there

pass == <<position, seen, files, directories, extracted, total, manifest>>
vars == <<stage, reason, archive, ending, pass, report, disk>>

Entry == [path : RawPaths, kind : {"directory", "file", "special"}, size : Sizes]

Init ==
    /\ stage = "inspect" /\ reason = None
    /\ archive = <<>> /\ ending = None
    /\ position = 0
    /\ seen = {} /\ files = {} /\ directories = {} /\ extracted = {}
    /\ total = 0
    /\ manifest = FALSE
    /\ report = None
    /\ disk = [p \in {} |-> None]

\* The mark of a directory among the sizes of files.
Directory == -1

Extracting == stage = "extract"

-----------------------------------------------------------------------------
(* Paths                                                                   *)

\* Path::components drops empty components and "." but for a leading one.
Components(raw) ==
    <<raw[1]>> \o SelectSeq(Tail(raw), LAMBDA c : c # ".")

\* validate_entry_path.
PathAccepted(raw) ==
    /\ raw # <<>>
    /\ Len(Components(raw)) <= MaxComponents
    /\ \A i \in 1..Len(Components(raw)) : Components(raw)[i] \in SafeNames

\* The directories above a path, the root (the empty path) included.
Parents(path) == {SubSeq(path, 1, n) : n \in 0..(Len(path) - 1)}

\* ensure_extracted_tree_limit (and a variant that leaves no room for the
\* receipt) after record_tree_parent_directories and
\* insert_tree_directory, which check before each insertion.
SlipForgetReceipt(dirs, fileCount) == Cardinality(dirs) + fileCount <= MaxExtracted + 1

TreeFits(dirs, fileCount) == Cardinality(dirs) + fileCount <= MaxExtracted

-----------------------------------------------------------------------------
(* The file system                                                         *)

\* create_dir_all succeeds unless a file stands in the way.
CanMake(path) ==
    \A p \in Parents(path) \union {path} : p \in DOMAIN disk => disk[p] = Directory

MakeAll(path) ==
    [p \in DOMAIN disk \union Parents(path) \union {path} |->
        IF p \in DOMAIN disk THEN disk[p] ELSE Directory]

\* write_file_new: parents are made, the file must not exist.
CanWrite(path) == CanMake(Front(path)) /\ path \notin DOMAIN disk

WriteNew(path, size) ==
    [p \in DOMAIN disk \union Parents(path) \union {path} |->
        IF p = path THEN size ELSE IF p \in DOMAIN disk THEN disk[p] ELSE Directory]

-----------------------------------------------------------------------------
(* process_archive                                                         *)

\* The caller discards what a refused extraction wrote.
Refuse(why) ==
    /\ stage' = "refused" /\ reason' = why
    /\ UNCHANGED <<ending, pass, report>>

Stream == position + total

\* Checks every entry meets before its kind matters.
Accepted(e) ==
    /\ position < MaxArchiveEntries
    /\ Stream < MaxStream
    /\ PathAccepted(e.path)
    /\ Components(e.path) \notin seen

\* A directory.
TakeDirectory(e) ==
    LET path == Components(e.path)
        dirs == directories \union Parents(path) \union {path} IN
    IF Extracting /\ ~TreeFits(dirs, Cardinality(extracted)) THEN Refuse("tree limit") /\ UNCHANGED disk
    ELSE IF Extracting /\ ~CanMake(path) THEN Refuse("conflict") /\ UNCHANGED disk
    ELSE /\ seen' = seen \union {path}
         /\ directories' = IF Extracting THEN dirs ELSE directories
         /\ disk' = IF Extracting THEN MakeAll(path) ELSE disk
         /\ position' = position + 1
         /\ UNCHANGED <<stage, reason, ending, report, files, extracted, total, manifest>>

\* A regular file, the manifest being one with a limit of its own.
TakeFile(e) ==
    LET path == Components(e.path)
        dirs == directories \union Parents(path) IN
    IF e.size > MaxFile \/ total + e.size > MaxTotal
       \/ (path = <<ManifestName>> /\ e.size > MaxManifest)
    THEN Refuse("limit") /\ UNCHANGED disk
    ELSE IF Extracting /\ ~TreeFits(dirs, Cardinality(extracted) + 1)
    THEN Refuse("tree limit") /\ UNCHANGED disk
    ELSE IF Extracting /\ ~CanWrite(path) THEN Refuse("conflict") /\ UNCHANGED disk
    ELSE /\ seen' = seen \union {path}
         /\ files' = files \union {path}
         /\ total' = total + e.size
         /\ manifest' = (manifest \/ path = <<ManifestName>>)
         /\ directories' = IF Extracting THEN dirs ELSE directories
         /\ extracted' = IF Extracting THEN extracted \union {[path |-> path, size |-> e.size]} ELSE extracted
         /\ disk' = IF Extracting THEN WriteNew(path, e.size) ELSE disk
         /\ position' = position + 1
         /\ UNCHANGED <<stage, reason, ending, report>>

TakeEntry(e) ==
    CASE ~Accepted(e) -> Refuse("entry") /\ UNCHANGED disk
      [] Accepted(e) /\ e.kind = "special" -> Refuse("entry") /\ UNCHANGED disk
      [] Accepted(e) /\ e.kind = "directory" -> TakeDirectory(e)
      [] OTHER -> TakeFile(e)

\* Inspection meets the next entry of the package, whatever it is.
InspectEntry(e) ==
    /\ stage = "inspect" /\ ending = None /\ Len(archive) = position
    /\ archive' = Append(archive, e)
    /\ TakeEntry(e)

\* Extraction meets the same entries.
ExtractEntry ==
    /\ Extracting /\ position < Len(archive)
    /\ TakeEntry(archive[position + 1])
    /\ UNCHANGED archive

\* validate_manifest: the entry point is one of the regular files.
ManifestAccepted(end) ==
    end.valid /\ (end.entryPoint = None \/ end.entryPoint \in files)

\* The end of the stream: no data but zeros, entries, a manifest, a valid one.
EndAccepted(end) ==
    /\ ~end.trailing
    /\ position > 0
    /\ manifest
    /\ ManifestAccepted(end)

Report == [entries |-> position, files |-> Cardinality(files), bytes |-> total]

FinishInspection(end) ==
    /\ stage = "inspect" /\ Len(archive) = position /\ ending = None
    /\ ending' = end
    /\ IF EndAccepted(end)
       THEN /\ report' = Report
            /\ stage' = "extract"
            /\ position' = 0 /\ total' = 0 /\ manifest' = FALSE
            /\ seen' = {} /\ files' = {} /\ extracted' = {}
            /\ directories' = {<<>>}
            /\ disk' = [p \in {<<>>} |-> Directory]
            /\ UNCHANGED <<reason, archive>>
       ELSE /\ stage' = "refused" /\ reason' = "end"
            /\ UNCHANGED <<pass, report, disk, archive>>

\* The caller compares manifest and report with the inspection's.
FinishExtraction ==
    /\ Extracting /\ position = Len(archive)
    /\ IF EndAccepted(ending) /\ Report = report
       THEN stage' = "extracted" /\ UNCHANGED reason
       ELSE stage' = "refused" /\ reason' = "changed"
    /\ UNCHANGED <<archive, ending, pass, report, disk>>

Over == stage \in {"extracted", "refused"} /\ UNCHANGED vars

Endings ==
    [trailing : BOOLEAN, valid : BOOLEAN, entryPoint : {None} \union {Components(p) : p \in RawPaths \ {<<>>}}]

Next ==
    \/ \E e \in Entry : InspectEntry(e)
    \/ \E end \in Endings : FinishInspection(end)
    \/ ExtractEntry \/ FinishExtraction \/ Over

Spec == Init /\ [][Next]_vars

-----------------------------------------------------------------------------

\* The tree process_archive returns.
TreeManifest ==
    [p \in directories \union {f.path : f \in extracted} |->
        IF p \in directories THEN Directory
        ELSE (CHOOSE f \in extracted : f.path = p).size]

\* What extraction reports is exactly what it left on disk, and with its receipt
\* it is within the limits of the snapshot walk of tree.rs: a package that
\* installs can be compared, updated and removed.
SnapshotAccepts ==
    stage = "extracted" =>
      /\ TreeManifest = disk
      /\ <<ReceiptName>> \notin DOMAIN disk
      /\ Cardinality(DOMAIN disk) + 1 <= MaxTreeEntries
      /\ \A p \in DOMAIN disk : disk[p] = Directory => Len(p) <= MaxTreeDepth
      /\ total + MaxReceipt <= MaxTreeBytes
=============================================================================
