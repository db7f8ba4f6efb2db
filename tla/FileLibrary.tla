----------------------------- MODULE FileLibrary -----------------------------
(***************************************************************************)
(* FileManager between the table midi_files and the content-addressed      *)
(* blobs of BlobStore: one row per content, one blob per row.  Handlers    *)
(* run to their next await.  A write that finds the database locked is     *)
(* tried again after a pause, in which every other command may run, and    *)
(* the replaced blob is deleted after one more await.                      *)
(*                                                                         *)
(* A blob is named by its content, so one set of contents stands for both. *)
(***************************************************************************)
EXTENDS Naturals, FiniteSets

CONSTANTS
    Contents,    \* MIDI contents, up to equal bytes
    Unparsable,  \* contents whose parse or analysis throws
    Bare,        \* contents without channel, tempo or text rows
    Workers,     \* bound: commands suspended at once
    Attempts,    \* DEFAULT_ATTEMPTS of runWithBusyRetry
    MaxFiles,    \* bound: rows ever inserted
    None

FileIds == 1 .. MaxFiles
Row == [hash : Contents, blob : Contents, parent : FileIds \cup {None}]
Operations == {"save", "bake", "replace", "derive"}
Command ==
    [op : Operations, at : {"baking", "retry", "cleanup"}, file : FileIds,
     old : Row \cup {None}, new : Contents \cup {None}, dedup : BOOLEAN, tries : Nat]

ASSUME FileLibraryAssumption ==
    /\ Unparsable \subseteq Contents /\ Bare \subseteq Contents
    /\ Attempts \in Nat \ {0} /\ MaxFiles \in Nat
    /\ None \notin Contents \cup Workers \cup FileIds \cup Row \cup Command

VARIABLES
    rows,     \* midi_files by id: content_hash, blob_path, parent_file_id
    nextId,   \* AUTOINCREMENT: an id is never used again
    blobs,    \* contents on disk
    cmd,      \* the suspended command of each worker
    overlap,  \* history: two commands in flight met in a file or a blob
    leaked,   \* history: blobs that a failure, a crash or a cascade orphaned
    swept     \* history: contents that a collection took from a waiting write

vars == <<rows, nextId, blobs, cmd, overlap, leaked, swept>>

-----------------------------------------------------------------------------
Files == {f \in FileIds : rows[f] # None}
InFlight == {w \in Workers : cmd[w] # None}

\* getFileByContentHash.
Owners(x) == {f \in Files : rows[f].hash = x}

\* listBlobsForManifest.
Referenced == {rows[f].blob : f \in Files}
Orphans == blobs \ Referenced

\* Bound: an insertion finds an id.
Room == nextId \in FileIds

\* The file a command changes and the blobs it writes or deletes.
FilesOf(c) == IF c.op = "derive" THEN {} ELSE {c.file}
BlobsOf(c) == ({c.new} \cup (IF c.old = None THEN {} ELSE {c.old.blob})) \ {None}

\* Whoever touches files F and blobs B meets those that others hold.
Touch(w, F, B) ==
    overlap' = (overlap \/ \E v \in InFlight \ {w} :
                              \/ FilesOf(cmd[v]) \cap F # {}
                              \/ BlobsOf(cmd[v]) \cap B # {})

\* Blobs B are orphaned.  What is back on disk is orphaned or swept no more.
Leak(B) ==
    /\ leaked' = (leaked \cup B) \cap Orphans'
    /\ swept' = swept \ blobs'

-----------------------------------------------------------------------------
LeavesAnyBlob(c) == c.old # None \* mutant: identical bytes are not told apart

\* The old blob, deleted when the row has left it.
LeavesOldBlob(c) == c.old # None /\ c.old.blob # c.new

RollsBackNoSave(c) == \* mutant: saveFile without its catch
    c.op = "derive" /\ c.new \notin Unparsable /\ Owners(c.new) = {}

\* The rollback of saveFile and the one of createDerivedFile.
RollsBack(c) ==
    \/ c.op = "save" /\ ~c.dedup /\ c.new # c.old.blob
    \/ c.op = "derive" /\ c.new \notin Unparsable /\ Owners(c.new) = {}

\* A foreign key or UNIQUE(content_hash) refuses the transaction.
Refused(c) ==
    \/ c.new \in Unparsable
    \/ c.op = "derive" /\ (c.file \notin Files \/ Owners(c.new) # {})
    \/ c.op # "derive" /\ c.file \notin Files /\ c.new \notin Bare
    \/ /\ c.op # "derive" /\ c.file \in Files
       /\ c.new # c.old.hash /\ Owners(c.new) \ {c.file} # {}

ReplacedBlobOnly(row, c) == \* mutant: content_hash is left to updateFile
    [row EXCEPT !.blob = c.new]

ReplacedHashOnly(row, c) == \* mutant: blob_path is not in the update
    [row EXCEPT !.hash = c.new]

\* The hash is written only when it differs from that of the row read first.
Replaced(row, c) ==
    [row EXCEPT !.blob = c.new, !.hash = IF c.new # c.old.hash THEN c.new ELSE @]

LastTry(c) == c.tries + 1 >= Attempts

Again(c) == [c EXCEPT !.at = "retry", !.tries = c.tries + 1]

Suspend(w, c) == cmd' = [cmd EXCEPT ![w] = c]
Finish(w) == cmd' = [cmd EXCEPT ![w] = None]

Reject(w, c, disk) ==
    /\ Finish(w)
    /\ blobs' = IF RollsBack(c) THEN disk \ {c.new} ELSE disk
    /\ UNCHANGED <<rows, nextId>>
    /\ Leak(IF c.op = "save" THEN {} ELSE {c.new})

Commit(w, c, disk) ==
    /\ blobs' = disk
    /\ Suspend(w, [c EXCEPT !.at = "cleanup"])
    /\ IF c.op = "derive"
       THEN /\ Room
            /\ rows' = [rows EXCEPT ![nextId] =
                            [hash |-> c.new, blob |-> c.new, parent |-> c.file]]
            /\ nextId' = nextId + 1
       ELSE /\ rows' = IF c.file \in Files
                       THEN [rows EXCEPT ![c.file] = Replaced(@, c)] ELSE rows
            /\ UNCHANGED nextId
    /\ Leak({})

\* One attempt of the transaction: _persistWithRetry over runWithBusyRetry.
Persist(w, c, disk) ==
    \/ Refused(c) /\ Reject(w, c, disk)
    \/ ~Refused(c) /\ Commit(w, c, disk)
    \/ /\ c.new \notin Unparsable /\ LastTry(c)
       /\ Reject(w, c, disk)
    \/ /\ c.new \notin Unparsable /\ ~LastTry(c)
       /\ blobs' = disk /\ Suspend(w, Again(c))
       /\ UNCHANGED <<rows, nextId>>
       /\ Leak({})

-----------------------------------------------------------------------------
\* Bytes x are written to disk; a content that another row owns is refused
\* and its blob taken back, if it was not there before.
Store(w, op, f, old, x) ==
    LET c == [op |-> op, at |-> "retry", file |-> f, old |-> old, new |-> x,
              dedup |-> x \in blobs, tries |-> 0]
    IN  IF op # "derive" /\ x # old.hash /\ Owners(x) \ {f} # {}
        THEN Finish(w) /\ UNCHANGED <<rows, nextId, blobs, overlap, leaked, swept>>
        ELSE /\ Touch(w, FilesOf(c), BlobsOf(c))
             /\ Persist(w, c, blobs \cup {x})

\* file_write, and replaceFileBytes of apply_assignments.
SaveFile(w, op) ==
    /\ op \in {"save", "replace"} /\ cmd[w] = None
    /\ \E f \in Files, x \in Contents : Store(w, op, f, rows[f], x)

\* file_bake: the row is read, the blob baked, and the result awaited.
BakeAndSave(w) ==
    /\ cmd[w] = None
    /\ \E f \in Files :
          /\ rows[f].blob \in blobs
          /\ Suspend(w, [op |-> "bake", at |-> "baking", file |-> f, old |-> rows[f],
                         new |-> None, dedup |-> FALSE, tries |-> 0])
          /\ Touch(w, {f}, {rows[f].blob})
    /\ UNCHANGED <<rows, nextId, blobs, leaked, swept>>

Baked(w) ==
    /\ cmd[w] # None /\ cmd[w].at = "baking"
    /\ \E x \in Contents : Store(w, "bake", cmd[w].file, cmd[w].old, x)

\* handleUpload, of an upload, a transcription or file_save_as: no await.
\* Bytes already in the library answer with their row; a failure takes the
\* blob back.
Upload(x) ==
    /\ Touch(None, {}, {x})
    /\ UNCHANGED cmd
    /\ \/ /\ Owners(x) # {}
          /\ blobs' = blobs \cup {x}
          /\ UNCHANGED <<rows, nextId>>
       \/ /\ Owners(x) = {}
          /\ blobs' = blobs \ {x}
          /\ UNCHANGED <<rows, nextId>>
       \/ /\ Owners(x) = {} /\ x \notin Unparsable /\ Room
          /\ blobs' = blobs \cup {x}
          /\ rows' = [rows EXCEPT ![nextId] = [hash |-> x, blob |-> x, parent |-> None]]
          /\ nextId' = nextId + 1
    /\ Leak({})

\* createDerivedFile of apply_assignments: an adapted copy of file p.
CreateDerivedFile(w) ==
    /\ cmd[w] = None
    /\ \E p \in Files, x \in Contents :
          \/ /\ Owners(x) # {}
             /\ blobs' = blobs \cup {x}
             /\ Touch(w, {}, {x})
             /\ UNCHANGED <<rows, nextId, cmd>>
             /\ Leak({})
          \/ /\ Owners(x) = {}
             /\ Store(w, "derive", p, None, x)

\* The pause after a locked database is over.
Retry(w) ==
    /\ cmd[w] # None /\ cmd[w].at = "retry"
    /\ Persist(w, cmd[w], blobs)
    /\ UNCHANGED overlap

\* The write was awaited: the old blob goes and the command is answered.
Cleanup(w) ==
    /\ cmd[w] # None /\ cmd[w].at = "cleanup"
    /\ blobs' = IF LeavesOldBlob(cmd[w]) THEN blobs \ {cmd[w].old.blob} ELSE blobs
    /\ Finish(w)
    /\ UNCHANGED <<rows, nextId, overlap>>
    /\ Leak({})

\* Adapted copies go with the file they were made from: ON DELETE CASCADE.
Cascade(f) ==
    {g \in Files : \A D \in SUBSET Files :
        f \in D /\ (\A h \in Files : rows[h].parent \in D => h \in D) => g \in D}

\* file_delete: the rows of copies go too, their blobs stay.
DeleteFile(f) ==
    /\ rows' = [g \in FileIds |-> IF g \in Cascade(f) THEN None ELSE rows[g]]
    /\ blobs' = blobs \ {rows[f].blob}
    /\ Touch(None, Cascade(f), {rows[f].blob})
    /\ UNCHANGED <<nextId, cmd>>
    /\ Leak({rows[g].blob : g \in Cascade(f)})

\* A write that waits for the locked database has no row for its blob yet.
Waiting == {cmd[w].new : w \in {v \in InFlight : cmd[v].at = "retry"}}

\* _gcOrphanBlobs, after a scheduled backup; never on an empty library.
GcOrphans ==
    /\ Files # {}
    /\ blobs' = blobs \cap Referenced
    /\ swept' = swept \cup (Orphans \cap Waiting)
    /\ leaked' = {}
    /\ UNCHANGED <<rows, nextId, cmd, overlap>>

\* The process dies and starts again: rows and blobs are on disk.
Crash ==
    /\ InFlight # {}
    /\ cmd' = [w \in Workers |-> None]
    /\ UNCHANGED <<rows, nextId, blobs, overlap>>
    /\ Leak(UNION {BlobsOf(cmd[w]) : w \in InFlight})

-----------------------------------------------------------------------------
Init ==
    /\ rows = [f \in FileIds |-> None] /\ nextId = 1
    /\ blobs = {} /\ leaked = {} /\ swept = {}
    /\ cmd = [w \in Workers |-> None]
    /\ overlap = FALSE

Next ==
    \/ \E w \in Workers :
          \/ SaveFile(w, "save") \/ SaveFile(w, "replace")
          \/ BakeAndSave(w) \/ Baked(w)
          \/ CreateDerivedFile(w)
          \/ Retry(w) \/ Cleanup(w)
    \/ \E x \in Contents : Upload(x)
    \/ \E f \in Files : DeleteFile(f)
    \/ GcOrphans
    \/ Crash

Spec == Init /\ [][Next]_vars

-----------------------------------------------------------------------------
TypeOK ==
    /\ rows \in [FileIds -> Row \cup {None}]
    /\ nextId \in 1 .. MaxFiles + 1
    /\ blobs \subseteq Contents /\ leaked \subseteq Contents /\ swept \subseteq Contents
    /\ cmd \in [Workers -> Command \cup {None}]
    /\ \A w \in InFlight : cmd[w].tries < Attempts
    /\ overlap \in BOOLEAN

\* Every row has its blob on disk, under its own hash, through failures, crashes
\* and garbage collections, as long as no two commands in flight meet in a file
\* or a content: commands that do not meet may interleave at will.  The one loss
\* is that of a write whose blob a collection took while it waited for the
\* locked database: its row is committed without bytes, until they are written
\* again.
RowsAreWhole ==
    ~overlap => /\ Referenced \subseteq blobs \cup swept
                /\ \A f \in Files : rows[f].hash = rows[f].blob

\* The collection "never contends with live uploads", says its comment,
\* src/src/persistence/BackupScheduler.js:102; the writes that wait it does meet.
CollectionsAreQuiet == ~overlap => Referenced \subseteq blobs

\* Under the same proviso a blob that no row uses is one that a command in
\* flight still holds, or one left by a crash, by a failed bake, replacement
\* or copy, or by the cascade of a deletion: a rejected save leaves none.
OrphansAreExplained ==
    ~overlap => Orphans \subseteq leaked \cup UNION {BlobsOf(cmd[w]) : w \in InFlight}

\* Under the same proviso a command about to answer has its content in the
\* library, unless the file it copied, and the copy with it, is deleted, or a
\* collection took the bytes.
AnsweredIsStored ==
    ~overlap => \A w \in InFlight :
        LET c == cmd[w]
            Stored(f) == /\ rows[f].hash = c.new /\ rows[f].blob = c.new
                         /\ c.new \in blobs \cup swept
        IN  c.at = "cleanup" =>
                IF c.op = "derive" THEN c.file \in Files => \E f \in Files : Stored(f)
                ELSE c.file \in Files /\ Stored(c.file)

\* "Old blob is now orphaned (UNIQUE(content_hash) => no other row uses it)",
\* says the comment at the deletion of saveFile, src/src/files/FileManager.js:427.
OldBlobIsOrphan ==
    \A w \in InFlight :
        cmd[w].op = "save" /\ cmd[w].at = "cleanup" /\ LeavesOldBlob(cmd[w])
            => cmd[w].old.blob \notin Referenced
=============================================================================
