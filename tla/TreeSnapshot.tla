---------------------------- MODULE TreeSnapshot -----------------------------
(***************************************************************************)
(* install/tree.rs: the walk that turns an open directory into the         *)
(* snapshot updates and installs compare, while another program writes in  *)
(* the same tree.  A file's contents are two halves, so that a read may    *)
(* meet a write; a stamp stands for the times and sizes fstat reports and  *)
(* changes with every write (the kernel sets ctime on each).               *)
(***************************************************************************)
EXTENDS Integers, Sequences, FiniteSets, SequencesExt

CONSTANTS
    Root, Sub,      \* the directory scanned and one below it
    Names,          \* file names
    Inodes,         \* files
    InitialNames,   \* directory -> name -> file, to begin with
    MaxEntries, MaxDepth, MaxFile, MaxTotal,  \* limits of the walk
    MaxWrites,      \* bound on the other program's steps
    None

Directories == {Root, Sub}

VARIABLES
    names,    \* directory -> name -> file, or None
    hasSub,   \* whether the root has the subdirectory
    data,     \* file -> its two halves, with the file's size in each
    links,    \* file -> its link count
    stamp,    \* directory or file -> its fstat stamp
    frames,   \* directories being read: [dir, before, todo]
    reading,  \* the file being read
    entries,  \* what the snapshot holds so far
    total,    \* bytes read so far
    result,   \* "running", "ok", "failed"
    parsed,   \* a file read again for its contents, once the walk is over
    writes

tree == <<names, hasSub, data, links, stamp>>
scan == <<frames, reading, entries, total, result, parsed>>
vars == <<tree, scan, writes>>

\* Sizes: a version of a file has one byte in each half, a grown one two.
Size(f) == data[f][1].size + data[f][2].size

NoFile == [dir |-> None, name |-> None, pinned |-> None, before |-> None, halves |-> <<>>]

Init ==
    /\ names = InitialNames
    /\ hasSub = TRUE
    /\ data = [f \in Inodes |-> <<[version |-> 0, size |-> 1], [version |-> 0, size |-> 1]>>]
    /\ links = [f \in Inodes |-> 1]
    /\ stamp = [x \in Inodes \union Directories |-> 0]
    /\ frames = <<>>
    /\ reading = NoFile
    /\ entries = {}
    /\ total = 0
    /\ result = "running"
    /\ parsed = None
    /\ writes = 0

-----------------------------------------------------------------------------
(* The walk                                                                *)

Fails == result' = "failed" /\ UNCHANGED <<frames, reading, entries, total, parsed>>

\* push_update_tree_entry: refused when the snapshot is full.
Full == Cardinality(entries) >= MaxEntries

Listing(d) ==
    {n \in Names : names[d][n] # None} \union (IF d = Root /\ hasSub THEN {Sub} ELSE {})

\* snapshot_update_directory up to its loop.
OpenDirectory(d, depth) ==
    IF depth > MaxDepth \/ Full THEN Fails
    ELSE /\ frames' = Append(frames, [dir |-> d, before |-> stamp[d], todo |-> Listing(d)])
         /\ entries' = entries \union {[dir |-> d, name |-> None, halves |-> <<>>]}
         /\ UNCHANGED <<reading, total, result, parsed>>

\* snapshot_update_tree_descriptor.
Start ==
    /\ result = "running" /\ frames = <<>>
    /\ OpenDirectory(Root, 0)
    /\ UNCHANGED <<tree, writes>>

Top == Last(frames)

\* One entry of the directory is pinned: a file with one link and a bounded
\* size is read, a directory entered; an entry that is gone ends the walk.
PinFile(n) ==
    /\ result = "running" /\ reading = NoFile /\ frames # <<>>
    /\ n \in Top.todo \ {Sub}
    /\ LET f == names[Top.dir][n] IN
       IF f = None THEN Fails
       ELSE IF links[f] # 1 \/ Size(f) > MaxFile THEN Fails
       ELSE /\ reading' = [NoFile EXCEPT !.dir = Top.dir, !.name = n, !.pinned = f]
            /\ frames' = [frames EXCEPT ![Len(frames)].todo = @ \ {n}]
            /\ UNCHANGED <<entries, total, result, parsed>>
    /\ UNCHANGED <<tree, writes>>

EnterDirectory ==
    /\ result = "running" /\ reading = NoFile /\ frames # <<>>
    /\ Sub \in Top.todo
    /\ IF ~hasSub \/ Len(frames) > MaxDepth \/ Full THEN Fails
       ELSE /\ frames' = Append([frames EXCEPT ![Len(frames)].todo = @ \ {Sub}],
                                [dir |-> Sub, before |-> stamp[Sub], todo |-> Listing(Sub)])
            /\ entries' = entries \union {[dir |-> Sub, name |-> None, halves |-> <<>>]}
            /\ UNCHANGED <<reading, total, result, parsed>>
    /\ UNCHANGED <<tree, writes>>

\* snapshot_update_file opens the name again for reading; it must still lead to
\* the pinned file.
OpenFile ==
    /\ result = "running" /\ reading # NoFile /\ reading.before = None
    /\ IF names[reading.dir][reading.name] # reading.pinned THEN Fails
       ELSE /\ reading' = [reading EXCEPT !.before = stamp[reading.pinned]]
            /\ UNCHANGED <<frames, entries, total, result, parsed>>
    /\ UNCHANGED <<tree, writes>>

BytesRead == FoldSeq(LAMBDA h, sum : h.size + sum, 0, reading.halves)

\* The loop that hashes: what has been read so far is bounded again.
ReadHalf ==
    /\ result = "running" /\ reading # NoFile /\ reading.before # None
    /\ Len(reading.halves) < 2
    /\ LET half == data[reading.pinned][Len(reading.halves) + 1] IN
       IF BytesRead + half.size > MaxFile THEN Fails
       ELSE /\ reading' = [reading EXCEPT !.halves = Append(@, half)]
            /\ UNCHANGED <<frames, entries, total, result, parsed>>
    /\ UNCHANGED <<tree, writes>>

\* A variant that does not look at the file again after reading it.
SlipNoSecondStat ==
    /\ result = "running" /\ Len(reading.halves) = 2
    /\ IF total + BytesRead > MaxTotal \/ Full THEN Fails
       ELSE /\ entries' = entries \union
                 {[dir |-> reading.dir, name |-> reading.name, halves |-> reading.halves]}
            /\ total' = total + BytesRead
            /\ reading' = NoFile
            /\ UNCHANGED <<frames, result, parsed>>
    /\ UNCHANGED <<tree, writes>>

\* The file's entry, if update_scan_stat_is_stable and the limits hold.
CloseFile ==
    /\ result = "running" /\ Len(reading.halves) = 2
    /\ IF stamp[reading.pinned] # reading.before \/ total + BytesRead > MaxTotal \/ Full THEN Fails
       ELSE /\ entries' = entries \union
                 {[dir |-> reading.dir, name |-> reading.name, halves |-> reading.halves]}
            /\ total' = total + BytesRead
            /\ reading' = NoFile
            /\ UNCHANGED <<frames, result, parsed>>
    /\ UNCHANGED <<tree, writes>>

\* The directory is as it was when its entries were listed.
CloseDirectory ==
    /\ result = "running" /\ reading = NoFile /\ frames # <<>> /\ Top.todo = {}
    /\ IF stamp[Top.dir] # Top.before THEN Fails
       ELSE /\ frames' = Front(frames)
            /\ result' = IF Len(frames) = 1 THEN "ok" ELSE "running"
            /\ UNCHANGED <<reading, entries, total, parsed>>
    /\ UNCHANGED <<tree, writes>>

\* read_update_snapshot_file: the manifest or the receipt is read by its path,
\* and used only if it is what the snapshot has.
ReadAgain(n) ==
    /\ result = "ok" /\ parsed = None
    /\ \E e \in entries : e.dir = Root /\ e.name = n
    /\ names[Root][n] # None
    /\ LET f == names[Root][n] IN
       /\ [dir |-> Root, name |-> n, halves |-> data[f]] \in entries
       /\ parsed' = data[f]
    /\ UNCHANGED <<frames, reading, entries, total, result, tree, writes>>

-----------------------------------------------------------------------------
(* The other program                                                       *)

Touch(xs) == stamp' = [x \in DOMAIN stamp |-> IF x \in xs THEN stamp[x] + 1 ELSE stamp[x]]

\* A write that replaces the contents and may make the file grow.
Write(f) ==
    /\ writes < MaxWrites
    /\ \E s \in 1..2 :
         data' = [data EXCEPT ![f] = <<[version |-> writes + 1, size |-> s],
                                       [version |-> writes + 1, size |-> 1]>>]
    /\ Touch({f})
    /\ writes' = writes + 1
    /\ UNCHANGED <<names, hasSub, links, scan>>

\* Creation, removal or replacement under a name; a second link to a file.
Rename(d, n, f) ==
    /\ writes < MaxWrites
    /\ names[d][n] # f
    /\ names' = [names EXCEPT ![d][n] = f]
    /\ links' = [g \in Inodes |-> links[g] + (IF g = f THEN 1 ELSE 0)
                                           - (IF g = names[d][n] THEN 1 ELSE 0)]
    /\ Touch(({d, f} \union {names[d][n]}) \ {None})
    /\ writes' = writes + 1
    /\ UNCHANGED <<hasSub, data, scan>>

RemoveSub ==
    /\ writes < MaxWrites /\ hasSub
    /\ hasSub' = FALSE
    /\ Touch({Root})
    /\ writes' = writes + 1
    /\ UNCHANGED <<names, data, links, scan>>

Ended == result # "running" /\ UNCHANGED vars

Walk ==
    \/ Start \/ EnterDirectory \/ OpenFile \/ ReadHalf \/ CloseFile \/ CloseDirectory
    \/ \E n \in Names : PinFile(n) \/ ReadAgain(n)

Next ==
    \/ Walk \/ RemoveSub \/ Ended
    \/ \E f \in Inodes : Write(f)
    \/ \E d \in Directories, n \in Names, f \in Inodes \union {None} : Rename(d, n, f)

Spec == Init /\ [][Next]_vars /\ WF_vars(Walk)

-----------------------------------------------------------------------------

\* snapshot_update_file: no entry mixes two versions of a file, and neither does
\* what is parsed, since a write between the reads of a file is noticed by the
\* second fstat; and a file that grows after its size was checked is never kept.
EntriesAreWhole ==
    /\ total <= MaxTotal
    /\ \A e \in entries : e.name # None =>
         /\ e.halves[1].version = e.halves[2].version
         /\ e.halves[1].size + e.halves[2].size <= MaxFile
    /\ parsed # None => parsed[1].version = parsed[2].version
=============================================================================
